---- MODULE Spec2Model ----
(***************************************************************************)
(* Model of the Ontos skill evaluator.                                     *)
(*                                                                         *)
(*   - the static engine of quick_eval.js (parseFrontmatter, the five      *)
(*     checkers, evaluateSkill, toJson),                                   *)
(*   - the smoke-test parser parseSkill of smoke_test.js,                  *)
(*   - the judges (judgeByRules, judgeByLLM, judgeHybrid) and the          *)
(*     orchestrator runSmokeTest of smoke_test.js.                         *)
(*                                                                         *)
(* A document is a sequence of lines (the text split at "\n"); a line is a *)
(* string.  The line "---" is the delimiter; no other line of the modelled *)
(* documents contains "---".  The character "@" stands for the backquote. *)
(* Scores are integers in hundredths (0.35 is 35) and the overall score is *)
(* in units of 1/10000 (weights in hundredths times scores in hundredths), *)
(* so the arithmetic is exact decimal arithmetic.                          *)
(***************************************************************************)
EXTENDS Integers, Sequences, FiniteSets, TLC

VARIABLES
    pc,         \* position of the running program
    doc,        \* the blocks and the body SKILL.md was written from
    content,    \* text of SKILL.md, a sequence of lines
    fsys,       \* state of the skill directory on disk
    report,     \* evaluation report of evaluateSkill (quick_eval.js)
    handed,     \* frontmatter and body evaluateSkill handed to the checkers
    output,     \* JSON document printed by quick_eval.js main
    isPassedRead, \* IS_PASSED as read by test_evaluator.sh
    skill,      \* result of parseSkill (smoke_test.js)
    judgeMode,  \* options.judgeMode || config.judge_mode
    testCount,  \* options.testCount || config.test_count
    prompts,    \* prompts of runSmokeTest
    idx,        \* loop variable i of runSmokeTest, counted from 1
    response,   \* response of the provider to the current prompt
    ruleResult, \* ruleResult of judgeHybrid for the current prompt
    judgment,   \* value returned by judgeHybrid for the current prompt
    results,    \* results of runSmokeTest
    passCount,  \* passCount of runSmokeTest
    inflight,   \* number of provider requests not yet settled
    chatCalls,  \* per prompt, the response calls issued to the provider
    judgeCalls, \* per prompt, the model-judge calls issued to the provider
    chatLog,    \* per prompt, how the response call settled
    judgeLog,   \* how the model-judge call of the current prompt settled
    smokeReport, \* value returned by runSmokeTest
    env,        \* process.env
    config,     \* value returned by loadConfig
    providerName, \* options.provider || config.default_provider
    llm,        \* the LLMProvider constructed by runSmokeTest
    thrown,     \* the error the run ended with
    req,        \* the https request of the provider call in flight
    promise,    \* the promise returned by the provider call in flight
    args,       \* process.argv.slice(2) of eval.js
    options,    \* value returned by parseArgs
    l1Result,   \* runPipeline: value returned by runL1
    l2Result,   \* runPipeline: value returned by runL2
    shouldContinue, \* runPipeline: local flag
    answers     \* the answers the user gave to question(), in order

evalVars == <<report, handed, output, isPassedRead>>

smokeVars == <<judgeMode, testCount, prompts, idx, response, ruleResult, judgment,
               results, passCount, inflight, chatCalls, judgeCalls, chatLog,
               judgeLog, smokeReport>>

procVars == <<env, config, providerName, llm, thrown, req, promise>>

pipeVars == <<args, options, l1Result, l2Result, shouldContinue, answers>>

vars == <<pc, doc, content, fsys, skill, evalVars, smokeVars, procVars, pipeVars>>

None == [none |-> TRUE]

-----------------------------------------------------------------------------
(* String primitives of JavaScript used by the code.                       *)

Min(a, b) == IF a < b THEN a ELSE b
Max(a, b) == IF a > b THEN a ELSE b

RECURSIVE SumSeq(_)
SumSeq(s) == IF s = <<>> THEN 0 ELSE Head(s) + SumSeq(Tail(s))

CharAt(s, i) == SubSeq(s, i, i)

\* s.startsWith(p)
StartsWith(s, p) == Len(s) >= Len(p) /\ SubSeq(s, 1, Len(p)) = p

\* sub occurs in s at (1-based) position i
OccursAt(s, sub, i) ==
    i >= 1 /\ i + Len(sub) - 1 <= Len(s) /\ SubSeq(s, i, i + Len(sub) - 1) = sub

\* s.includes(sub)
Includes(s, sub) == \E i \in 1..(Len(s) - Len(sub) + 1) : OccursAt(s, sub, i)

\* s.indexOf(sub), 1-based; 0 when absent (JavaScript: 0-based, -1 when absent)
RECURSIVE IndexFrom(_, _, _)
IndexFrom(s, sub, i) ==
    IF i + Len(sub) - 1 > Len(s) THEN 0
    ELSE IF OccursAt(s, sub, i) THEN i
    ELSE IndexFrom(s, sub, i + 1)

IndexOf(s, sub) == IndexFrom(s, sub, 1)

\* number of matches of a literal pattern under the g flag (non-overlapping,
\* left to right), from position i
RECURSIVE CountFrom(_, _, _)
CountFrom(s, sub, i) ==
    IF i + Len(sub) - 1 > Len(s) THEN 0
    ELSE IF OccursAt(s, sub, i) THEN 1 + CountFrom(s, sub, i + Len(sub))
    ELSE CountFrom(s, sub, i + 1)

CountOcc(s, sub) == CountFrom(s, sub, 1)

UpperAlpha == "ABCDEFGHIJKLMNOPQRSTUVWXYZ"
LowerAlpha == "abcdefghijklmnopqrstuvwxyz"
Digits == "0123456789"

UpperChars == {CharAt(UpperAlpha, i) : i \in 1..26}
LowerChars == {CharAt(LowerAlpha, i) : i \in 1..26}
DigitChars == {CharAt(Digits, i) : i \in 1..10}
WordChars == UpperChars \cup LowerChars \cup DigitChars \cup {"_"}

IsLowerChar(c) == c \in LowerChars
IsDigitChar(c) == c \in DigitChars
\* \w of a regular expression
IsWordChar(c) == c \in WordChars
\* \s of a regular expression and the white space of trim()
IsSpaceChar(c) == c = " " \/ c = "\t" \/ c = "\n" \/ c = "\r"

LowerOf ==
    [c \in UpperChars |-> CharAt(LowerAlpha, CHOOSE i \in 1..26 : CharAt(UpperAlpha, i) = c)]

LowerChar(c) == IF c \in UpperChars THEN LowerOf[c] ELSE c

\* s.toLowerCase()
RECURSIVE ToLowerCase(_)
ToLowerCase(s) ==
    IF Len(s) <= 1 THEN LowerChar(s)
    ELSE ToLowerCase(SubSeq(s, 1, Len(s) \div 2))
         \o ToLowerCase(SubSeq(s, Len(s) \div 2 + 1, Len(s)))

RECURSIVE TrimLeft(_)
TrimLeft(s) ==
    IF s # "" /\ IsSpaceChar(CharAt(s, 1)) THEN TrimLeft(SubSeq(s, 2, Len(s))) ELSE s

RECURSIVE TrimRight(_)
TrimRight(s) ==
    IF s # "" /\ IsSpaceChar(CharAt(s, Len(s)))
    THEN TrimRight(SubSeq(s, 1, Len(s) - 1)) ELSE s

\* a trim of the left end only
Trim_LeftOnly(s) == TrimLeft(s)

\* s.trim()
Trim(s) == TrimRight(TrimLeft(s))

IsQuoteChar(c) == c = "\"" \/ c = "'"

\* value.replace(/^["']|["']$/g, '')
StripQuotes(v) ==
    LET a == IF v # "" /\ IsQuoteChar(CharAt(v, 1)) THEN SubSeq(v, 2, Len(v)) ELSE v
    IN  IF a # "" /\ IsQuoteChar(CharAt(a, Len(a))) THEN SubSeq(a, 1, Len(a) - 1) ELSE a

\* obj[key] = value on an object modelled as a function from keys to values
SetKey(obj, key, value) ==
    [k \in (DOMAIN obj) \cup {key} |-> IF k = key THEN value ELSE obj[k]]

\* obj[key] || ''
GetOr(obj, key) == IF key \in DOMAIN obj THEN obj[key] ELSE ""

EmptyObj == [k \in {} |-> ""]

Delim == "---"

\* The backquote cannot be written in a string of this language: "@" stands
\* for it in every modelled text, so Fence is the three-backquote code fence.
Fence == "@@@"

-----------------------------------------------------------------------------
(* The patterns of the checkers of quick_eval.js.  Every pattern matches   *)
(* within one line, or is decided by counting a token over the lines of    *)
(* the body, so the patterns are evaluated line by line.                   *)

RECURSIVE SkipSpaces(_, _)
SkipSpaces(s, i) == IF i <= Len(s) /\ IsSpaceChar(CharAt(s, i)) THEN SkipSpaces(s, i + 1) ELSE i

RECURSIVE SkipDigits(_, _)
SkipDigits(s, i) == IF i <= Len(s) /\ IsDigitChar(CharAt(s, i)) THEN SkipDigits(s, i + 1) ELSE i

usageKeywords == {"use when", "use for", "triggers", "invoke", "activate", "call this"}

\* /##?\s*(trigger|usage|invoke|activate)/i on one lower-cased line: a "#", then white
\* space, then one of the words (the optional second "#" is covered by the
\* match starting at that "#")
HeadingWord(low, words) ==
    \E i \in 1..Len(low) :
        /\ CharAt(low, i) = "#"
        /\ \E w \in words : OccursAt(low, w, SkipSpaces(low, i + 1))

\* /\*.*trigger.*\*/i on one line
StarTriggerStar(low) ==
    \E j \in 1..Len(low) :
        /\ OccursAt(low, "trigger", j)
        /\ \E i \in 1..(j - 1) : CharAt(low, i) = "*"
        /\ \E k \in (j + 7)..Len(low) : CharAt(low, k) = "*"

\* /^\d+\.\s+/ on one line
NumberedStep(line) ==
    LET j == SkipDigits(line, 1)
    IN  j > 1 /\ CharAt(line, j) = "." /\ j + 1 <= Len(line) /\ IsSpaceChar(CharAt(line, j + 1))

\* /^-\s+/ and /^\*\s+/ on one line
BulletStep(line, bullet) ==
    Len(line) >= 2 /\ CharAt(line, 1) = bullet /\ IsSpaceChar(CharAt(line, 2))

\* /^#{1,3}\s+Step/ on one line
HeadingStep(line) ==
    \E n \in 1..3 :
        /\ Len(line) > n
        /\ \A i \in 1..n : CharAt(line, i) = "#"
        /\ IsSpaceChar(CharAt(line, n + 1))
        /\ OccursAt(line, "Step", SkipSpaces(line, n + 1))

\* the test of the word-bounded, case-insensitive pattern \bverb\b on a line
WordOccurs(low, word) ==
    \E i \in 1..Len(low) :
        /\ OccursAt(low, word, i)
        /\ (i = 1 \/ ~IsWordChar(CharAt(low, i - 1)))
        /\ (i + Len(word) > Len(low) \/ ~IsWordChar(CharAt(low, i + Len(word))))

vaguePhrases ==
    {"as needed", "if necessary", "when appropriate", "as applicable", "etc.", "and so on", "various"}

imperativeVerbs ==
    {"run", "execute", "create", "add", "remove", "update", "check", "verify", "use"}

\* [\w\-\.] of a regular expression
IsRefChar(c) == IsWordChar(c) \/ c = "-" \/ c = "."

RECURSIVE SkipRefChars(_, _)
SkipRefChars(s, i) == IF i <= Len(s) /\ IsRefChar(CharAt(s, i)) THEN SkipRefChars(s, i + 1) ELSE i

\* line.match(/<stem>s?\/[\w\-\.]+/g), from position i: the matched texts
RECURSIVE PathRefsFrom(_, _, _)
PathRefsFrom(line, stem, i) ==
    IF i > Len(line) THEN <<>>
    ELSE
        LET p == IF OccursAt(line, stem \o "s/", i) THEN i + Len(stem) + 2
                 ELSE IF OccursAt(line, stem \o "/", i) THEN i + Len(stem) + 1
                 ELSE 0
            e == IF p = 0 THEN 0 ELSE SkipRefChars(line, p)
        IN  IF p # 0 /\ e > p
            THEN <<SubSeq(line, i, e - 1)>> \o PathRefsFrom(line, stem, e)
            ELSE PathRefsFrom(line, stem, i + 1)

\* /\[.*\]\(.*\.md\)/ on one line
MarkdownDocLink(line) ==
    \E j \in 1..Len(line) :
        /\ OccursAt(line, "](", j)
        /\ \E i \in 1..(j - 1) : CharAt(line, i) = "["
        /\ \E k \in (j + 2)..Len(line) : OccursAt(line, ".md)", k)

toolKeywords == {"mcp", "tool", "api", "endpoint", "function", "command"}

shellFences == {Fence \o "bash", Fence \o "shell", Fence \o "sh", Fence \o "zsh"}

\* the literal placeholder patterns, as matched under the flags gi
\* (/\[placeholder\]/, /\[todo\]/, /\[tbd\]/, /\[fill in\]/, /xxx/, /FIXME/,
\* /TODO/ and /\.\.\./), in the order of placeholderPatterns
literalPlaceholders ==
    <<"[placeholder]", "[todo]", "[tbd]", "[fill in]", "xxx", "fixme", "todo", "...">>

\* matches of /<your.*>/gi on one line: the greedy match runs to the last ">"
YourPlaceholder(low) ==
    IF \E i \in 1..Len(low) :
            OccursAt(low, "<your", i) /\ \E j \in (i + 5)..Len(low) : CharAt(low, j) = ">"
    THEN 1 ELSE 0

\* body.match(new RegExp(pattern.source, 'gi')) summed over the patterns
LinePlaceholders(low) ==
    SumSeq([k \in 1..Len(literalPlaceholders) |-> CountOcc(low, literalPlaceholders[k])])
    + YourPlaceholder(low)

\* a line with three "|" (/\|.*\|.*\|/)
TableRow(line) == CountOcc(line, "|") >= 3

\* what the patterns of the checkers find on one line
LineFacts(line) ==
    LET low == ToLowerCase(line)
    IN  [triggerHeading |-> HeadingWord(low, {"trigger", "usage", "invoke", "activate"}),
         starTrigger |-> StarTriggerStar(low),
         quotes |-> CountOcc(line, "\""),
         step |-> \/ NumberedStep(line)
                  \/ BulletStep(line, "-")
                  \/ BulletStep(line, "*")
                  \/ HeadingStep(line),
         fences |-> CountOcc(line, Fence),
         vague |-> {ph \in vaguePhrases : Includes(low, ph)},
         verbs |-> {v \in imperativeVerbs : WordOccurs(low, v)},
         scriptRefs |-> PathRefsFrom(line, "script", 1),
         docRef |-> PathRefsFrom(line, "reference", 1) # <<>> \/ MarkdownDocLink(line),
         tools |-> {kw \in toolKeywords : Includes(low, kw)},
         shell |-> \E f \in shellFences : Includes(line, f),
         placeholders |-> LinePlaceholders(low),
         exampleHeading |-> HeadingWord(low, {"example", "sample", "demo"}),
         outputFormat |-> \/ HeadingWord(low, {"output"})
                          \/ Includes(line, Fence \o "json")
                          \/ Includes(line, Fence \o "yaml")
                          \/ TableRow(line)]

-----------------------------------------------------------------------------
(* Documents and directories the programs are run on.                      *)

\* the lines of seq at the positions of S, in order
RECURSIVE Pick(_, _, _)
Pick(seq, S, i) ==
    IF i > Len(seq) THEN <<>>
    ELSE (IF i \in S THEN <<seq[i]>> ELSE <<>>) \o Pick(seq, S, i + 1)

\* all sequences over S of length at most n
RECURSIVE SeqsUpTo(_, _)
SeqsUpTo(S, n) ==
    IF n = 0 THEN {<<>>}
    ELSE LET shorter == SeqsUpTo(S, n - 1)
         IN  shorter \cup {Append(q, x) : q \in {r \in shorter : Len(r) = n - 1}, x \in S}

RECURSIVE Flatten(_)
Flatten(seqs) == IF seqs = <<>> THEN <<>> ELSE Head(seqs) \o Flatten(Tail(seqs))

\* body lines, each one carrying evidence for some of the checkers
BodyLibrary ==
    <<"1. Run scripts/run.sh and check the result",
      "- call the API endpoint, etc.",
      Fence \o "bash",
      Fence,
      "## Example",
      "| input | output |",
      "Say \"evaluate this skill\"",
      "[TODO] describe the various options as needed",
      "Create, verify and update files if necessary, and so on",
      "See [the guide](references/guide.md)">>

\* bodies of the static evaluation runs: the sub-texts of the library
EvalBodies == {Pick(BodyLibrary, S, 1) : S \in SUBSET (1..Len(BodyLibrary))}

DescShort == "Short"
DescMedium == "Reports the weather"
DescLong == "Retrieves current weather conditions and forecasts for a location"
DescUsage == "Use when you need the current weather conditions for any location"

\* metadata headers of the static evaluation runs
EvalHeaders ==
    { <<>>,
      <<Delim, "name: weather", "description: " \o DescUsage, Delim>>,
      <<Delim, "name: weather", "description: " \o DescLong, "license: MIT", Delim>>,
      <<Delim, "description: \"" \o DescMedium \o "\"", "author: ontos", "version: 1", Delim>> }

\* further headers, evaluated without a body
BareHeaders ==
    { <<Delim, "name: weather">>,
      <<Delim, "# draft", "name: weather", Delim>> }

\* metadata blocks: the name and the description a block was written with
\* ("" for a block without name or description) and its lines
Block(name, desc, lines) == [name |-> name, desc |-> desc, lines |-> lines]

BlockLibrary ==
    { Block("alpha", DescShort, <<"name: alpha", "description: " \o DescShort>>),
      Block("beta", "Nine char", <<"description: 'Nine char'", "name: beta">>),
      Block("gamma", "Ten chars!", <<"name: gamma", "description: Ten chars!">>),
      Block("delta", DescMedium, <<"name: \"delta\"", "description: \"" \o DescMedium \o "\"">>),
      Block("", DescLong, <<"description: " \o DescLong, "tags:", "  - weather">>),
      Block("eps", "", <<"name: eps", "license: MIT">>) }

\* largest number of metadata blocks of a document
MaxBlocks == 3

BlockBodies == { <<>>, <<"", "# Weather", "Use the API tool.">> }

\* the text of a document: every block between its own two delimiter lines,
\* then the body
RECURSIVE RenderBlocks(_)
RenderBlocks(blocks) ==
    IF blocks = <<>> THEN <<>>
    ELSE <<Delim>> \o Head(blocks).lines \o <<Delim>> \o RenderBlocks(Tail(blocks))

Render(d) == RenderBlocks(d.blocks) \o d.body

BlockDocs == {[blocks |-> bs, body |-> b] : bs \in SeqsUpTo(BlockLibrary, MaxBlocks), b \in BlockBodies}

\* states of the skill directory
Directory(md, scripts, entries, references) ==
    [skillMd |-> md, scripts |-> scripts, entries |-> entries,
     references |-> references, assets |-> FALSE]

EvalDirectories ==
    { Directory(TRUE, "missing", {}, FALSE),
      Directory(TRUE, "dir", {".gitkeep"}, FALSE),
      Directory(TRUE, "dir", {"run.sh"}, FALSE),
      Directory(TRUE, "dir", {"other.sh"}, TRUE),
      Directory(TRUE, "file", {}, FALSE),
      Directory(FALSE, "missing", {}, FALSE) }

\* the body lines of all modelled documents, and what the patterns find on
\* each of them (LineFacts, evaluated once per line)
Range(f) == {f[x] : x \in DOMAIN f}

\* body lines for the placeholder check: a line, the number of placeholder
\* markers written on it, and whether it is an example heading
MarkerLine(line, markers, example) == [line |-> line, markers |-> markers, example |-> example]

MarkerLibrary ==
    { MarkerLine("[TODO]", 1, FALSE),
      MarkerLine("TODO: finish this part", 1, FALSE),
      MarkerLine("FIXME later", 1, FALSE),
      MarkerLine("[placeholder]", 1, FALSE),
      MarkerLine("xxx", 1, FALSE),
      MarkerLine("and more...", 1, FALSE),
      MarkerLine("Plain sentence", 0, FALSE),
      MarkerLine("## Example", 0, TRUE) }

MaxMarkerLines == 3

MarkerDocs ==
    {[blocks |-> <<Block("weather", DescUsage, <<"name: weather", "description: " \o DescUsage>>)>>,
      body |-> [i \in 1..Len(es) |-> es[i].line],
      entries |-> es] : es \in SeqsUpTo(MarkerLibrary, MaxMarkerLines)}

\* body lines with one vague phrase each and no imperative verb
VagueLibrary ==
    <<"Adjust the settings as needed",
      "Retry if necessary",
      "Escalate when appropriate",
      "Apply defaults as applicable",
      "Logs, metrics, Etc.",
      "Repeat for the rest and so on",
      "Supports VARIOUS formats">>

\* body lines without vague phrases and the number of distinct imperative
\* verbs of the vocabulary that stand in them as whole words
VerbLines(lines, verbs) == [lines |-> lines, verbs |-> verbs]

VerbLibrary ==
    { VerbLines(<<>>, 0),
      VerbLines(<<"Running and checking only, unused">>, 0),
      VerbLines(<<"Run the tool">>, 1),
      VerbLines(<<"Run the tool", "Then verify the output">>, 2),
      VerbLines(<<"Run the tool", "Then verify the output", "RUN again and Verify">>, 2),
      VerbLines(<<"Run, create and check">>, 3),
      VerbLines(<<"Run, create and check", "Then verify the output">>, 4) }

\* a numbered step and a code block: 0.35 + 0.25 of the actionability score
StepsAndCode == <<"1. First step", Fence \o "sh", "make", Fence>>

\* documents for the actionability checker and what their bodies hold
ActionDocs ==
    {[blocks |-> <<Block("weather", DescUsage, <<"name: weather", "description: " \o DescUsage>>)>>,
      body |-> StepsAndCode \o Pick(VagueLibrary, S, 1) \o v.lines,
      vague |-> Cardinality(S),
      verbs |-> v.verbs] : S \in SUBSET (1..Len(VagueLibrary)), v \in VerbLibrary}

\* body lines with tool evidence: the line, the files under scripts/ it
\* names, whether it links documentation, the tool keywords in it, and
\* whether it opens a shell code block
ToolLine(line, refs, docRef, tools, shell) ==
    [line |-> line, refs |-> refs, docRef |-> docRef, tools |-> tools, shell |-> shell]

ToolLibrary ==
    <<ToolLine("Start with scripts/run.sh", {"run.sh"}, FALSE, {}, FALSE),
      ToolLine("Then scripts/missing.py twice", {"missing.py"}, FALSE, {}, FALSE),
      ToolLine("See [the guide](guide.md)", {}, TRUE, {}, FALSE),
      ToolLine("Call the API", {}, FALSE, {"api"}, FALSE),
      ToolLine("Pick an endpoint", {}, FALSE, {"endpoint"}, FALSE),
      ToolLine(Fence \o "bash", {}, FALSE, {}, TRUE),
      ToolLine("Plain sentence", {}, FALSE, {}, FALSE)>>

\* the states of the scripts directory
ToolDirectories ==
    { Directory(TRUE, "missing", {}, FALSE),
      Directory(TRUE, "dir", {}, FALSE),
      Directory(TRUE, "dir", {".gitkeep"}, FALSE),
      Directory(TRUE, "dir", {"run.sh"}, FALSE),
      Directory(TRUE, "dir", {"run.sh", "missing.py"}, FALSE) }

\* documents for the tool-reference checker and the lines they were
\* written from
ToolDocs ==
    {[blocks |-> <<Block("weather", DescUsage, <<"name: weather", "description: " \o DescUsage>>)>>,
      body |-> [i \in 1..Len(es) |-> es[i].line],
      entries |-> es] : es \in {Pick(ToolLibrary, S, 1) : S \in SUBSET (1..Len(ToolLibrary))}}

LineUniverse ==
    Range(BodyLibrary)
    \cup {ToolLibrary[i].line : i \in 1..Len(ToolLibrary)}
    \cup Range(StepsAndCode) \cup Range(VagueLibrary)
    \cup UNION {Range(v.lines) : v \in VerbLibrary}
    \cup UNION {Range(h) : h \in EvalHeaders \cup BareHeaders}
    \cup UNION {Range(b.lines) : b \in BlockLibrary}
    \cup UNION {Range(b) : b \in BlockBodies}
    \cup {m.line : m \in MarkerLibrary}

FactsTable == [l \in LineUniverse |-> LineFacts(l)]

Facts(line) == FactsTable[line]

-----------------------------------------------------------------------------
(* Data models of quick_eval.js.                                           *)

createIssue(severity, code) == [severity |-> severity, code |-> code]

\* weights of the overall getter, in hundredths
WStructure == 20
WTriggers == 15
WActionability == 25
WToolRefs == 20
WExamples == 20

\* the getter with the weights of triggers, actionability and tool_refs
\* permuted
overall_Permuted(scores) ==
    scores.structure * WStructure +
    scores.triggers * WActionability +
    scores.actionability * WToolRefs +
    scores.tool_refs * WTriggers +
    scores.examples * WExamples

\* the getter scores.overall, in units of 1/10000
overall(scores) ==
    scores.structure * WStructure +
    scores.triggers * WTriggers +
    scores.actionability * WActionability +
    scores.tool_refs * WToolRefs +
    scores.examples * WExamples

createScores ==
    [structure |-> 0, triggers |-> 0, actionability |-> 0, tool_refs |-> 0, examples |-> 0]

createReport ==
    [skill_id |-> "skill", skill_path |-> "/skills/skill", evaluated_at |-> "now",
     tier |-> "quick", scores |-> createScores, issues |-> <<>>,
     recommendations |-> <<>>, badge |-> "fail"]

-----------------------------------------------------------------------------
(* YAML frontmatter parser of quick_eval.js.                               *)

\* positions of the delimiter lines of a text
DelimPositions(lines) == {i \in 1..Len(lines) : lines[i] = Delim}

\* the n-th smallest element of a finite set of integers
RECURSIVE NthSmallest(_, _)
NthSmallest(S, n) ==
    LET m == CHOOSE x \in S : \A y \in S : x <= y
    IN  IF n = 1 THEN m ELSE NthSmallest(S \ {m}, n - 1)

IsBlank(line) == Trim(line) = ""

\* text.trim() on a text held as lines: blank lines at both ends go, and so
\* does the white space before the first and after the last character
RECURSIVE DropLeadingBlank(_)
DropLeadingBlank(lines) ==
    IF lines # <<>> /\ IsBlank(Head(lines)) THEN DropLeadingBlank(Tail(lines)) ELSE lines

RECURSIVE DropTrailingBlank(_)
DropTrailingBlank(lines) ==
    IF lines # <<>> /\ IsBlank(lines[Len(lines)])
    THEN DropTrailingBlank(SubSeq(lines, 1, Len(lines) - 1)) ELSE lines

TrimText(lines) ==
    LET t == DropTrailingBlank(DropLeadingBlank(lines))
    IN  IF t = <<>> THEN <<>>
        ELSE IF Len(t) = 1 THEN <<Trim(t[1])>>
        ELSE <<TrimLeft(t[1])>> \o SubSeq(t, 2, Len(t) - 1) \o <<TrimRight(t[Len(t)])>>

\* text.startsWith('---')
TextStartsWithDelim(lines) == lines # <<>> /\ StartsWith(lines[1], Delim)

\* the loop body of the "Simple YAML parsing" loop, for one line
FrontmatterLine(fm, line) ==
    LET trimmed == Trim(line)
        colonIndex == IndexOf(trimmed, ":")
    IN  IF trimmed = "" \/ StartsWith(trimmed, "#") THEN fm
        ELSE IF colonIndex > 1
             THEN SetKey(fm, Trim(SubSeq(trimmed, 1, colonIndex - 1)),
                         StripQuotes(Trim(SubSeq(trimmed, colonIndex + 1, Len(trimmed)))))
             ELSE fm

RECURSIVE FrontmatterLines(_, _)
FrontmatterLines(fm, lines) ==
    IF lines = <<>> THEN fm
    ELSE FrontmatterLines(FrontmatterLine(fm, Head(lines)), Tail(lines))

\* parseFrontmatter(content): frontmatter is None for "null"
parseFrontmatter(text) ==
    IF ~TextStartsWithDelim(text)
    THEN [frontmatter |-> None, body |-> text,
          issues |-> <<createIssue("error", "NO_FRONTMATTER")>>]
    ELSE IF Cardinality(DelimPositions(text)) + 1 < 3
    THEN [frontmatter |-> None, body |-> text,
          issues |-> <<createIssue("error", "MALFORMED_FRONTMATTER")>>]
    ELSE
        LET d1 == NthSmallest(DelimPositions(text), 1)
            d2 == NthSmallest(DelimPositions(text), 2)
            frontmatterText == TrimText(SubSeq(text, d1 + 1, d2 - 1))
            body == TrimText(SubSeq(text, d2 + 1, Len(text)))
        IN  [frontmatter |-> FrontmatterLines(EmptyObj, frontmatterText),
             body |-> body,
             issues |-> IF TextStartsWithDelim(body)
                        THEN <<createIssue("error", "DUPLICATE_FRONTMATTER")>>
                        ELSE <<>>]

-----------------------------------------------------------------------------
(* Evaluation checks of quick_eval.js.  A checker takes the issue list and *)
(* returns its score together with the extended issue list.                *)

\* JavaScript truthiness of frontmatter[key]
HasField(fm, key) == key \in DOMAIN fm /\ fm[key] # ""

\* fs.existsSync(path.join(skillPath, d)) for the resource directories
DirExists(fs, d) ==
    CASE d = "scripts" -> fs.scripts # "missing"
      [] d = "references" -> fs.references
      [] d = "assets" -> fs.assets

allowedFields == {"name", "description", "license", "tags"}

checkStructure(fs, frontmatter, body, issues) ==
    IF ~fs.skillMd
    THEN [score |-> 0, issues |-> Append(issues, createIssue("error", "NO_SKILL_MD"))]
    ELSE IF frontmatter = None THEN [score |-> 0, issues |-> issues]
    ELSE
        LET missingName == ~HasField(frontmatter, "name")
            missingDesc == ~HasField(frontmatter, "description")
            extra == (DOMAIN frontmatter) \ allowedFields
            existingResources == {d \in {"scripts", "references", "assets"} : DirExists(fs, d)}
            deductions == (IF missingName THEN 30 ELSE 0) + (IF missingDesc THEN 30 ELSE 0)
                          + 5 * Cardinality(extra)
            i1 == IF missingName
                  THEN Append(issues, createIssue("error", "MISSING_NAME")) ELSE issues
            i2 == IF missingDesc
                  THEN Append(i1, createIssue("error", "MISSING_DESCRIPTION")) ELSE i1
            i3 == i2 \o [k \in 1..Cardinality(extra) |-> createIssue("warning", "EXTRA_FIELD")]
            i4 == IF existingResources = {}
                  THEN Append(i3, createIssue("info", "NO_RESOURCES")) ELSE i3
        IN  [score |-> Max(0, 100 - deductions), issues |-> i4]

checkTriggers(frontmatter, body, issues) ==
    IF frontmatter = None THEN [score |-> 0, issues |-> issues]
    ELSE
        LET description == GetOr(frontmatter, "description")
            hasUsageContext == \E kw \in usageKeywords : Includes(ToLowerCase(description), kw)
            short == Len(description) < 50
            \* the third pattern, a quoted text, matches iff the body holds two quotes
            hasTriggerSection ==
                \/ \E i \in 1..Len(body) : Facts(body[i]).triggerHeading
                \/ \E i \in 1..Len(body) : Facts(body[i]).starTrigger
                \/ SumSeq([i \in 1..Len(body) |-> Facts(body[i]).quotes]) >= 2
            i1 == IF hasUsageContext THEN issues
                  ELSE Append(issues, createIssue("warning", "NO_USAGE_CONTEXT"))
            i2 == IF short THEN Append(i1, createIssue("warning", "SHORT_DESCRIPTION")) ELSE i1
            i3 == IF hasTriggerSection THEN i2
                  ELSE Append(i2, createIssue("info", "NO_TRIGGER_EXAMPLES"))
            score == (IF hasUsageContext THEN 40 ELSE 0) + (IF short THEN 0 ELSE 20)
                     + (IF hasTriggerSection THEN 40 ELSE 0)
        IN  [score |-> Min(100, score), issues |-> i3]

checkActionability(body, issues) ==
    LET hasSteps == \E i \in 1..Len(body) : Facts(body[i]).step
        \* the code-block pattern (fence, shortest text, fence) under the g flag
        \* finds a match iff the body holds two fences
        hasCodeBlocks == SumSeq([i \in 1..Len(body) |-> Facts(body[i]).fences]) >= 2
        vagueCount ==
            Cardinality({ph \in vaguePhrases : \E i \in 1..Len(body) : ph \in Facts(body[i]).vague})
        imperativeCount ==
            Cardinality({v \in imperativeVerbs : \E i \in 1..Len(body) : v \in Facts(body[i]).verbs})
        i1 == IF hasSteps THEN issues ELSE Append(issues, createIssue("warning", "NO_STEPS"))
        i2 == IF hasCodeBlocks THEN i1 ELSE Append(i1, createIssue("info", "NO_CODE_BLOCKS"))
        i3 == IF vagueCount > 3
              THEN Append(i2, createIssue("warning", "VAGUE_LANGUAGE")) ELSE i2
        i4 == IF imperativeCount = 0
              THEN Append(i3, createIssue("info", "FEW_IMPERATIVES")) ELSE i3
        score == (IF hasSteps THEN 35 ELSE 0)
                 + (IF hasCodeBlocks THEN 25 ELSE 0)
                 + (IF vagueCount > 3 THEN 0 - 10 * Min(vagueCount, 3) ELSE 20)
                 + (IF imperativeCount >= 3 THEN 20 ELSE 0)
    IN  [score |-> Max(0, Min(100, score)), issues |-> i4]

\* body.match(/scripts?\/[\w\-\.]+/g) || []
RECURSIVE ScriptRefs(_)
ScriptRefs(lines) ==
    IF lines = <<>> THEN <<>>
    ELSE Facts(Head(lines)).scriptRefs \o ScriptRefs(Tail(lines))

\* fs.existsSync(path.join(skillPath, ref)) for a matched script reference
RefExists(fs, ref) ==
    /\ fs.scripts = "dir"
    /\ StartsWith(ref, "scripts/")
    /\ LET file == SubSeq(ref, 9, Len(ref))
       IN  file \in fs.entries \cup {".", ".."}

\* the neutral score given to a single weak piece of evidence as well
NeutralIfNone_OrWeak(score) == IF score <= 20 THEN 50 ELSE score

\* if (score === 0) { ...; score = 0.5 }
NeutralIfNone(score) == IF score = 0 THEN 50 ELSE score

\* checkToolRefs; fs.readdirSync throws when scripts exists and is no directory
checkToolRefs(fs, body, issues) ==
    IF fs.scripts = "file" THEN [threw |-> "ENOTDIR", score |-> 0, issues |-> issues]
    ELSE
        LET scriptRefs == ScriptRefs(body)
            scripts == {f \in fs.entries : ~StartsWith(f, ".")}
            hasScripts == fs.scripts = "dir" /\ scripts # {}
            broken == IF hasScripts
                      THEN SelectSeq(scriptRefs, LAMBDA r : ~RefExists(fs, r)) ELSE <<>>
            i1 == issues \o [k \in 1..Len(broken) |-> createIssue("error", "BROKEN_SCRIPT_REF")]
            i2 == IF fs.scripts = "missing" /\ Len(scriptRefs) > 0
                  THEN Append(i1, createIssue("error", "SCRIPTS_DIR_MISSING")) ELSE i1
            hasDocRefs == \E i \in 1..Len(body) : Facts(body[i]).docRef
            toolMentions ==
                Cardinality({kw \in toolKeywords : \E i \in 1..Len(body) : kw \in Facts(body[i]).tools})
            hasShell == \E i \in 1..Len(body) : Facts(body[i]).shell
            score == (IF hasScripts THEN 30 ELSE 0) + (IF hasDocRefs THEN 30 ELSE 0)
                     + (IF toolMentions >= 2 THEN 20 ELSE 0) + (IF hasShell THEN 20 ELSE 0)
        IN  IF score = 0
            THEN [threw |-> "", score |-> Min(100, NeutralIfNone(score)),
                  issues |-> Append(i2, createIssue("info", "NO_TOOL_REFS"))]
            ELSE [threw |-> "", score |-> Min(100, NeutralIfNone(score)), issues |-> i2]

checkExamples(body, issues) ==
    LET placeholderCount == SumSeq([i \in 1..Len(body) |-> Facts(body[i]).placeholders])
        hasExampleSection == \E i \in 1..Len(body) : Facts(body[i]).exampleHeading
        hasOutputFormat == \E i \in 1..Len(body) : Facts(body[i]).outputFormat
        i1 == IF placeholderCount = 0 THEN issues
              ELSE IF placeholderCount <= 2
                   THEN Append(issues, createIssue("warning", "PLACEHOLDERS_FOUND"))
                   ELSE Append(issues, createIssue("error", "MANY_PLACEHOLDERS"))
        i2 == IF hasExampleSection THEN i1
              ELSE Append(i1, createIssue("info", "NO_EXAMPLE_SECTION"))
        i3 == IF hasOutputFormat THEN i2
              ELSE Append(i2, createIssue("info", "NO_OUTPUT_FORMAT"))
        score == (IF placeholderCount = 0 THEN 40 ELSE IF placeholderCount <= 2 THEN 20 ELSE 0)
                 + (IF hasExampleSection THEN 30 ELSE 0)
                 + (IF hasOutputFormat THEN 30 ELSE 0)
    IN  [score |-> Min(100, score), issues |-> i3]

-----------------------------------------------------------------------------
(* Main evaluation of quick_eval.js.                                       *)

\* thresholds of the badge, in units of 1/10000
GoldMin == 8500
SilverMin == 7000
BronzeMin == 5000

\* the badge with the boundaries given to the lower tier
badgeOf_Strict(ov) ==
    IF ov > GoldMin THEN "gold"
    ELSE IF ov > SilverMin THEN "silver"
    ELSE IF ov > BronzeMin THEN "bronze"
    ELSE "fail"

badgeOf(ov) ==
    IF ov >= GoldMin THEN "gold"
    ELSE IF ov >= SilverMin THEN "silver"
    ELSE IF ov >= BronzeMin THEN "bronze"
    ELSE "fail"

HasCode(issues, severity, code) ==
    \E i \in 1..Len(issues) : issues[i].severity = severity /\ issues[i].code = code

recommendationsOf(issues) ==
    (IF HasCode(issues, "error", "DUPLICATE_FRONTMATTER")
     THEN <<"Remove duplicate YAML frontmatter block (critical)">> ELSE <<>>)
    \o (IF HasCode(issues, "error", "MISSING_NAME") \/ HasCode(issues, "error", "MISSING_DESCRIPTION")
        THEN <<"Add required 'name' and 'description' fields to frontmatter">> ELSE <<>>)
    \o (IF HasCode(issues, "warning", "NO_USAGE_CONTEXT")
        THEN <<"Add 'Use when...' clause to description for better triggering">> ELSE <<>>)
    \o (IF HasCode(issues, "warning", "NO_STEPS")
        THEN <<"Add numbered procedural steps for better actionability">> ELSE <<>>)
    \o (IF HasCode(issues, "error", "MANY_PLACEHOLDERS")
           \/ HasCode(issues, "warning", "PLACEHOLDERS_FOUND")
        THEN <<"Replace placeholder text with real examples">> ELSE <<>>)

\* the call of the k-th checker by evaluateSkill
CheckerResult(fs, parsed, k, issues) ==
    CASE k = 1 -> checkStructure(fs, parsed.frontmatter, parsed.body, issues)
      [] k = 2 -> checkTriggers(parsed.frontmatter, parsed.body, issues)
      [] k = 3 -> checkActionability(parsed.body, issues)
      [] k = 4 -> checkToolRefs(fs, parsed.body, issues)
      [] k = 5 -> checkExamples(parsed.body, issues)

\* the dimensions in the order evaluateSkill scores them
dimensions == <<"structure", "triggers", "actionability", "tool_refs", "examples">>

\* report.scores.<dimension> = <checker>(..., report.issues) for one checker
Scored(acc, k, r) ==
    [scores |-> [acc.scores EXCEPT ![dimensions[k]] = r.score],
     issues |-> r.issues,
     threw |-> IF "threw" \in DOMAIN r THEN r.threw ELSE ""]

\* the five checker calls of evaluateSkill from the k-th on; an exception
\* ends the sequence
RECURSIVE RunCheckers(_, _, _, _)
RunCheckers(fs, parsed, k, acc) ==
    IF k > Len(dimensions) \/ acc.threw # "" THEN acc
    ELSE RunCheckers(fs, parsed, k + 1,
                     Scored(acc, k, CheckerResult(fs, parsed, k, acc.issues)))

\* the report of evaluateSkill after the checkers, with the arguments handed
\* to the checkers and the exception that escaped, if any
Reported(parsed, done) ==
    IF done.threw # ""
    THEN [threw |-> done.threw,
          handed |-> [frontmatter |-> parsed.frontmatter, body |-> parsed.body],
          report |-> None]
    ELSE [threw |-> "",
          handed |-> [frontmatter |-> parsed.frontmatter, body |-> parsed.body],
          report |-> [createReport EXCEPT
                        !.scores = done.scores,
                        !.issues = done.issues,
                        !.badge = badgeOf(overall(done.scores)),
                        !.recommendations = recommendationsOf(done.issues)]]

\* what evaluateSkill does once SKILL.md is read
Evaluation(fs, parsed) ==
    Reported(parsed,
             RunCheckers(fs, parsed, 1,
                         [scores |-> createScores, issues |-> parsed.issues, threw |-> ""]))

\* evaluateSkill(skillPath)
evaluateSkill(fs, text) ==
    IF ~fs.skillMd
    THEN [threw |-> "", handed |-> None,
          report |-> [createReport EXCEPT
                        !.issues = <<createIssue("error", "NO_SKILL_MD")>>,
                        !.badge = "fail"]]
    ELSE Evaluation(fs, parseFrontmatter(text))

\* the two decimals cut off instead of rounded
Round2_Truncated(x) == x \div 100

\* Math.round(x * 100) / 100 for a score x in units of 1/10000, in hundredths
Round2(x) == (x + 50) \div 100

\* toJson(report): the report with its scores replaced by the rounded ones
toJson(r) ==
    [r EXCEPT !.scores =
        [overall |-> Round2(overall(r.scores)),
         structure |-> r.scores.structure,
         triggers |-> r.scores.triggers,
         actionability |-> r.scores.actionability,
         tool_refs |-> r.scores.tool_refs,
         examples |-> r.scores.examples]]

-----------------------------------------------------------------------------
(* Static evaluation: quick_eval.js run by test_evaluator.sh.              *)

\* nothing evaluated yet
EvalIdle ==
    /\ report = None
    /\ handed = None
    /\ output = None
    /\ isPassedRead = FALSE

\* no provider constructed and no call made
PipeIdle ==
    /\ args = <<>>
    /\ options = None
    /\ l1Result = None
    /\ l2Result = None
    /\ shouldContinue = TRUE
    /\ answers = <<>>

ProcIdle ==
    /\ env = EmptyObj
    /\ config = None
    /\ providerName = ""
    /\ llm = None
    /\ thrown = None
    /\ req = None
    /\ promise = None

\* no smoke test running
SmokeIdle ==
    /\ judgeMode = "hybrid"
    /\ testCount = 0
    /\ prompts = <<>>
    /\ idx = 0
    /\ response = None
    /\ ruleResult = None
    /\ judgment = None
    /\ results = <<>>
    /\ passCount = 0
    /\ inflight = 0
    /\ chatCalls = <<>>
    /\ judgeCalls = <<>>
    /\ chatLog = <<>>
    /\ judgeLog = None
    /\ smokeReport = None

InitEval ==
    /\ pc = "start"
    /\ doc = None
    /\ content \in {h \o b : h \in EvalHeaders, b \in EvalBodies} \cup BareHeaders
    /\ fsys \in EvalDirectories
    \* without SKILL.md there is no content; the runs on a scripts directory
    \* holding only a hidden file, or on a scripts entry that is no
    \* directory, are taken on the documents without body
    /\ fsys.skillMd \/ content = <<>>
    /\ (fsys.scripts = "file" \/ fsys.entries = {".gitkeep"})
            => content \in EvalHeaders \cup BareHeaders
    /\ EvalIdle
    /\ PipeIdle
    /\ ProcIdle
    /\ skill = None
    /\ SmokeIdle

\* const report = evaluateSkill(skillPath) in main
EvaluateSkill ==
    /\ pc = "start"
    /\ LET r == evaluateSkill(fsys, content)
       IN  /\ report' = r.report
           /\ handed' = r.handed
           /\ pc' = IF r.threw # "" THEN "crashed" ELSE "evaluated"
    /\ UNCHANGED <<doc, content, fsys, pipeVars, procVars, output, isPassedRead, skill, smokeVars>>

\* output = toJson(report); console.log(output) in main
PrintJson ==
    /\ pc = "evaluated"
    /\ output' = toJson(report)
    /\ pc' = "printed"
    /\ UNCHANGED <<doc, content, fsys, pipeVars, procVars, report, handed, isPassedRead, skill, smokeVars>>

\* test_evaluator.sh: IS_PASSED is grepped from the output, default false
ReadIsPassed ==
    /\ pc \in {"printed", "crashed"}
    /\ isPassedRead' = IF output # None /\ "is_passed" \in DOMAIN output
                       THEN output.is_passed ELSE FALSE
    /\ pc' = "read"
    /\ UNCHANGED <<doc, content, fsys, pipeVars, procVars, report, handed, output, skill, smokeVars>>

NextEval == EvaluateSkill \/ PrintJson \/ ReadIsPassed

SpecEval == InitEval /\ [][NextEval]_vars

-----------------------------------------------------------------------------
(* Properties of the static evaluation.                                    *)

Evaluated == pc \in {"evaluated", "printed", "read"} /\ report # None

\* C1: in every report of evaluateSkill each of the five dimension scores
\* lies in [0,1], and scores.overall is 0.20*structure + 0.15*triggers +
\* 0.25*actionability + 0.20*tool_refs + 0.20*examples, hence in [0,1].
C1_OverallIsWeightedSum ==
    Evaluated =>
        LET sc == report.scores
        IN  /\ \A d \in DOMAIN sc : 0 <= sc[d] /\ sc[d] <= 100
            /\ overall(sc) = 20 * sc.structure + 15 * sc.triggers + 25 * sc.actionability
                             + 20 * sc.tool_refs + 20 * sc.examples
            /\ 0 <= overall(sc) /\ overall(sc) <= 10000
            /\ pc \in {"printed", "read"} =>
                    output.scores.overall =
                        Round2(20 * sc.structure + 15 * sc.triggers + 25 * sc.actionability
                               + 20 * sc.tool_refs + 20 * sc.examples)

\* a report whose dimension scores differ pairwise in weight-relevant ways
C1_Witness ==
    /\ Evaluated
    /\ report.scores.structure = 100
    /\ report.scores.triggers = 60
    /\ report.scores.actionability = 0
    /\ overall(report.scores) > 0

\* C2: the badge is the step function of the overall score with the
\* boundaries 0.85, 0.70 and 0.50 belonging to the higher tier.
C2_BadgeStep ==
    Evaluated =>
        LET ov == overall(report.scores)
        IN  /\ report.badge \in {"gold", "silver", "bronze", "fail"}
            /\ (report.badge = "gold") <=> (ov >= 8500)
            /\ (report.badge = "silver") <=> (7000 <= ov /\ ov < 8500)
            /\ (report.badge = "bronze") <=> (5000 <= ov /\ ov < 7000)
            /\ (report.badge = "fail") <=> (ov < 5000)

\* a report exactly on a boundary, carrying the badge of the higher tier
C2_Witness ==
    /\ Evaluated
    /\ overall(report.scores) = 8500
    /\ report.badge = "gold"

\* pass threshold of the reports, in units of 1/10000
PassThreshold == 7000

\* C3: every report carries is_passed and pass_threshold with is_passed =
\* (overall >= pass_threshold) and pass_threshold = 0.70, and the test
\* script reads that is_passed from the evaluator's output.
C3_ReportCarriesIsPassed ==
    /\ Evaluated =>
        /\ {"is_passed", "pass_threshold"} \subseteq DOMAIN report
        /\ report.pass_threshold = PassThreshold
        /\ report.is_passed = (overall(report.scores) >= report.pass_threshold)
    /\ (pc = "read" /\ report # None) =>
        isPassedRead = (overall(report.scores) >= PassThreshold)

-----------------------------------------------------------------------------
(* Skill parser of smoke_test.js.                                          *)

\* the matches of /^---\n([\s\S]*?)\n---/gm from line pos on: a line "---"
\* followed by a line break opens a match, the first later line but one
\* that starts with "---" closes it, and the search goes on after that line
FirstFrom(lines, pos, P(_)) ==
    LET S == {i \in pos..Len(lines) : P(lines[i])}
    IN  IF S = {} THEN 0 ELSE CHOOSE i \in S : \A j \in S : i <= j

RECURSIVE FrontmatterMatches(_, _)
FrontmatterMatches(lines, pos) ==
    LET open == FirstFrom(lines, pos, LAMBDA l : l = Delim)
        close == IF open = 0 THEN 0
                 ELSE FirstFrom(lines, open + 2, LAMBDA l : StartsWith(l, Delim))
    IN  IF open = 0 \/ close = 0 THEN <<>>
        ELSE <<[first |-> open, last |-> close,
                text |-> SubSeq(lines, open + 1, close - 1)]>>
             \o FrontmatterMatches(lines, close + 1)

\* the body of the inner loop of parseSkill, for one line of a block
SkillLine(fm, line) ==
    LET colonIndex == IndexOf(line, ":")
    IN  IF colonIndex > 1
        THEN LET key == Trim(SubSeq(line, 1, colonIndex - 1))
                 value == StripQuotes(Trim(SubSeq(line, colonIndex + 1, Len(line))))
             IN  IF value # "" /\ ~StartsWith(value, "-") THEN SetKey(fm, key, value) ELSE fm
        ELSE fm

RECURSIVE SkillLines(_, _)
SkillLines(fm, lines) ==
    IF lines = <<>> THEN fm ELSE SkillLines(SkillLine(fm, Head(lines)), Tail(lines))

\* the update that keeps the block seen last
PickBest_Last(best, fm) ==
    [bestFrontmatter |-> fm, bestDescLength |-> Len(GetOr(fm, "description"))]

\* the update of bestFrontmatter and bestDescLength by one block
PickBest(best, fm) ==
    LET descLen == Len(GetOr(fm, "description"))
    IN  IF descLen > best.bestDescLength
        THEN [bestFrontmatter |-> fm, bestDescLength |-> descLen]
        ELSE best

RECURSIVE BestOver(_, _)
BestOver(best, matches) ==
    IF matches = <<>> THEN best
    ELSE BestOver(PickBest(best, SkillLines(EmptyObj, TrimText(Head(matches).text))),
                  Tail(matches))

\* path.basename(skillPath)
Basename == "skill"

\* smallest length of an accepted description
MinDescLength == 10

\* the test that also rejects a description of the smallest accepted length
DescriptionMissing_Inclusive(description) ==
    description = "" \/ Len(description) <= MinDescLength

\* !description || description.length < 10
DescriptionMissing(description) == description = "" \/ Len(description) < MinDescLength

parseSkill(fs, text) ==
    IF ~fs.skillMd THEN [error |-> "NO_SKILL_MD"]
    ELSE
        LET matches == FrontmatterMatches(text, 1)
        IN  IF Len(matches) = 0 THEN [error |-> "NO_FRONTMATTER"]
            ELSE
                LET best == BestOver([bestFrontmatter |-> EmptyObj, bestDescLength |-> 0],
                                     matches)
                    bestFrontmatter == best.bestFrontmatter
                    name == IF HasField(bestFrontmatter, "name")
                            THEN bestFrontmatter["name"] ELSE Basename
                    description == GetOr(bestFrontmatter, "description")
                    lastMatch == matches[Len(matches)]
                IN  IF DescriptionMissing(description)
                    THEN [error |-> "MISSING_DESCRIPTION", name |-> name]
                    ELSE [name |-> name,
                          description |-> description,
                          body |-> TrimText(SubSeq(text, lastMatch.last + 1, Len(text))),
                          fullContent |-> text,
                          error |-> "null"]

-----------------------------------------------------------------------------
(* Runs on documents with several metadata blocks.                         *)

InitBlocks ==
    /\ pc = "start"
    /\ doc \in BlockDocs
    /\ content = Render(doc)
    /\ fsys = Directory(TRUE, "missing", {}, FALSE)
    /\ EvalIdle
    /\ PipeIdle
    /\ ProcIdle
    /\ skill = None
    /\ SmokeIdle

\* const skill = parseSkill(skillPath)
ParseSkill ==
    /\ pc = "start"
    /\ skill' = parseSkill(fsys, content)
    /\ pc' = "parsed"
    /\ UNCHANGED <<doc, content, fsys, pipeVars, procVars, evalVars, smokeVars>>

\* the smoke-test parser on the documents with several blocks
SpecParse == InitBlocks /\ [][ParseSkill]_vars

\* the static evaluation on the documents with several blocks
SpecBlocks == InitBlocks /\ [][EvaluateSkill]_vars

-----------------------------------------------------------------------------
(* Properties of the parsers on documents with several blocks.             *)

DescLengthsDiffer(blocks) ==
    \A i, j \in 1..Len(blocks) : i # j => Len(blocks[i].desc) # Len(blocks[j].desc)

\* position of a block with the longest description
LongestAt(blocks) ==
    CHOOSE i \in 1..Len(blocks) : \A j \in 1..Len(blocks) : Len(blocks[i].desc) >= Len(blocks[j].desc)

NameOrBasename(block) == IF block.name = "" THEN Basename ELSE block.name

\* C4: for a document with k >= 1 blocks whose descriptions have pairwise
\* different lengths, parseSkill returns the name and the description of
\* the block with the longest description, wherever that block stands.
C4_LongestBlockSelected ==
    (pc = "parsed" /\ Len(doc.blocks) >= 1 /\ DescLengthsDiffer(doc.blocks)) =>
        LET b == doc.blocks[LongestAt(doc.blocks)]
        IN  /\ skill.error \in {"null", "MISSING_DESCRIPTION"}
            /\ b.desc # "" => skill.name = NameOrBasename(b)
            /\ skill.error = "null" => skill.description = b.desc

\* three blocks, the longest description in the middle one
C4_Witness ==
    /\ pc = "parsed"
    /\ Len(doc.blocks) = 3
    /\ DescLengthsDiffer(doc.blocks)
    /\ LongestAt(doc.blocks) = 2
    /\ skill.error = "null"
    /\ skill.description = doc.blocks[2].desc
    /\ skill.name = doc.blocks[2].name

\* C5: in static evaluation the metadata handed to the checkers is that of
\* the block with the longest description, and the body handed to them is
\* the text after the last block.
C5_StaticUsesLongestBlock ==
    (pc = "evaluated" /\ Len(doc.blocks) >= 1 /\ DescLengthsDiffer(doc.blocks)) =>
        LET b == doc.blocks[LongestAt(doc.blocks)]
        IN  /\ handed.frontmatter # None
            /\ GetOr(handed.frontmatter, "description") = b.desc
            /\ GetOr(handed.frontmatter, "name") = b.name
            /\ handed.body = TrimText(doc.body)

\* length of the longest description of the blocks
RECURSIVE MaxDescLen(_)
MaxDescLen(blocks) ==
    IF blocks = <<>> THEN 0 ELSE Max(Len(Head(blocks).desc), MaxDescLen(Tail(blocks)))

\* C6: parseSkill returns MISSING_DESCRIPTION exactly when the selected
\* description has fewer than 10 characters, and a document when it has 10
\* or more; every returned document has a description of length >= 10.
C6_MissingDescription ==
    /\ (pc = "parsed" /\ Len(doc.blocks) >= 1) =>
            /\ (skill.error = "MISSING_DESCRIPTION") <=> (MaxDescLen(doc.blocks) < 10)
            /\ (skill.error = "null") <=> (MaxDescLen(doc.blocks) >= 10)
    /\ (pc = "parsed" /\ skill.error = "null") => Len(skill.description) >= 10

\* a description of exactly 10 characters is accepted, next to shorter ones
C6_Witness ==
    /\ pc = "parsed"
    /\ Len(doc.blocks) >= 2
    /\ MaxDescLen(doc.blocks) = 10
    /\ skill.error = "null"
    /\ Len(skill.description) = 10

-----------------------------------------------------------------------------
(* Static evaluation of bodies with placeholder markers.                   *)

InitExamples ==
    /\ pc = "start"
    /\ doc \in MarkerDocs
    /\ content = Render(doc)
    /\ fsys = Directory(TRUE, "missing", {}, FALSE)
    /\ EvalIdle
    /\ PipeIdle
    /\ ProcIdle
    /\ skill = None
    /\ SmokeIdle

SpecExamples == InitExamples /\ [][EvaluateSkill]_vars

\* number of issues of a severity and a code in a list
RECURSIVE CountIssues(_, _, _)
CountIssues(issues, severity, code) ==
    IF issues = <<>> THEN 0
    ELSE (IF Head(issues) = createIssue(severity, code) THEN 1 ELSE 0)
         + CountIssues(Tail(issues), severity, code)

\* number of placeholder markers written in the body of the document
MarkersWritten(d) == SumSeq([i \in 1..Len(d.entries) |-> d.entries[i].markers])

\* C7: with n the number of placeholder markers of the body, each marker
\* counted once whatever its form, checkExamples adds 0.4 and emits no
\* placeholder issue for n = 0, adds 0.2 and emits one warning for n in
\* {1,2}, and adds 0 and emits one error for n >= 3.
C7_PlaceholderTiers ==
    pc = "evaluated" =>
        LET n == MarkersWritten(doc)
            hasExample == \E i \in 1..Len(doc.entries) : doc.entries[i].example
            contribution == report.scores.examples - (IF hasExample THEN 30 ELSE 0)
            warnings == CountIssues(report.issues, "warning", "PLACEHOLDERS_FOUND")
            errors == CountIssues(report.issues, "error", "MANY_PLACEHOLDERS")
        IN  /\ n = 0 => contribution = 40 /\ warnings = 0 /\ errors = 0
            /\ n \in {1, 2} => contribution = 20 /\ warnings = 1 /\ errors = 0
            /\ n >= 3 => contribution = 0 /\ warnings = 0 /\ errors = 1

-----------------------------------------------------------------------------
(* Prompt generator and judges of smoke_test.js.  Confidences are in       *)
(* hundredths.                                                              *)

UpperOf ==
    [c \in LowerChars |-> CharAt(UpperAlpha, CHOOSE i \in 1..26 : CharAt(LowerAlpha, i) = c)]

UpperChar(c) == IF c \in LowerChars THEN UpperOf[c] ELSE c

\* s.toUpperCase()
RECURSIVE ToUpperCase(_)
ToUpperCase(s) ==
    IF s = "" THEN "" ELSE UpperChar(CharAt(s, 1)) \o ToUpperCase(SubSeq(s, 2, Len(s)))

\* s.replace(/[.!?,]+$/, '')
RECURSIVE StripEndPunct(_)
StripEndPunct(s) ==
    IF s # "" /\ CharAt(s, Len(s)) \in {".", "!", "?", ","}
    THEN StripEndPunct(SubSeq(s, 1, Len(s) - 1)) ELSE s

\* s.slice(0, n) of a string or an array
Take(s, n) == SubSeq(s, 1, Min(n, Len(s)))

generateTestPrompts(sk, count) ==
    LET desc == Trim(StripEndPunct(ToLowerCase(sk.description)))
        templates == <<"Help me: " \o desc,
                       "I need to: " \o desc,
                       desc,
                       "How do I " \o desc \o "?">>
        fromTemplates == Take(templates, Max(0, Min(count - 1, Len(templates))))
        withName == IF Len(fromTemplates) < count
                    THEN Append(fromTemplates, "Tell me about " \o sk.name)
                    ELSE fromTemplates
    IN  Take(withName, count)

\* name.split(/[-_]/), cur being the piece read so far
RECURSIVE SplitName(_, _)
SplitName(s, cur) ==
    IF s = "" THEN <<cur>>
    ELSE LET c == CharAt(s, 1)
             rest == SubSeq(s, 2, Len(s))
         IN  IF c = "-" \/ c = "_" THEN <<cur>> \o SplitName(rest, "")
             ELSE SplitName(rest, cur \o c)

\* the maximal runs of \w characters of a string, cur being the run read so far
RECURSIVE WordRuns(_, _)
WordRuns(s, cur) ==
    IF s = "" THEN (IF cur = "" THEN <<>> ELSE <<cur>>)
    ELSE LET c == CharAt(s, 1)
             rest == SubSeq(s, 2, Len(s))
         IN  IF IsWordChar(c) THEN WordRuns(rest, cur \o c)
             ELSE (IF cur = "" THEN <<>> ELSE <<cur>>) \o WordRuns(rest, "")

\* a match of /\b[a-z]{4,}\b/: a whole run of at least four lower-case letters
IsLowerWord(w) == Len(w) >= 4 /\ \A i \in 1..Len(w) : IsLowerChar(CharAt(w, i))

\* the alternatives of /\b(will|can|let me|here's|i'll)\b/i
actionWords == {"will", "can", "let me", "here's", "i'll"}

\* the ratio test with the boundary included
RatioAbove_Inclusive(matched, total) == total > 0 /\ 10 * matched >= 3 * total

\* matchRatio > 0.3, matchRatio being matched / total, or 0 without keywords
RatioAbove(matched, total) == total > 0 /\ 10 * matched > 3 * total

judgeByRules(resp, sk) ==
    LET lowerResponse == ToLowerCase(resp)
        lowerDesc == ToLowerCase(sk.description)
        nameWords == SelectSeq(SplitName(sk.name, ""), LAMBDA w : Len(w) > 3)
        descWords == SelectSeq(WordRuns(lowerDesc, ""), IsLowerWord)
        keywords == nameWords \o Take(descWords, 5)
        matchedKeywords == SelectSeq(keywords,
                                     LAMBDA kw : Includes(lowerResponse, ToLowerCase(kw)))
        ratioAbove == RatioAbove(Len(matchedKeywords), Len(keywords))
        mentionsSkill == Includes(lowerResponse, ToLowerCase(sk.name))
        hasAction == \E w \in actionWords : WordOccurs(lowerResponse, w)
        confidence == (IF mentionsSkill THEN 40 ELSE 0)
                      + (IF ratioAbove THEN 30 ELSE 0)
                      + (IF hasAction THEN 20 ELSE 0)
                      + (IF Len(resp) > 100 THEN 10 ELSE 0)
    IN  [verdict |-> IF confidence >= 50 THEN "YES"
                     ELSE IF confidence >= 30 THEN "PARTIAL" ELSE "NO",
         confidence |-> Min(100, confidence),
         matchedKeywords |-> matchedKeywords,
         method |-> "rule"]

\* how a provider call settles
Resolved(text) == [ok |-> TRUE, text |-> text]
Rejected(message) == [ok |-> FALSE, message |-> message]

\* judgeByLLM, given how its call llm.chat settled
judgeByLLM(reply) ==
    IF reply.ok
    THEN LET verdict == ToUpperCase(Trim(reply.text))
         IN  IF verdict \in {"YES", "PARTIAL", "NO"}
             THEN [verdict |-> verdict, confidence |-> 90, method |-> "llm"]
             ELSE [verdict |-> "NO", confidence |-> 50, method |-> "llm",
                   error |-> "Invalid LLM response"]
    ELSE [verdict |-> "UNKNOWN", confidence |-> 0, method |-> "llm",
          error |-> reply.message]

\* the test with the threshold of the verdict YES
Escalates_LowThreshold(rr) == rr.verdict = "PARTIAL" \/ rr.confidence < 50

\* ruleResult.verdict === 'PARTIAL' || ruleResult.confidence < 0.7
Escalates(rr) == rr.verdict = "PARTIAL" \/ rr.confidence < 70

\* whether judgeHybrid calls judgeByLLM
CallsModelJudge(mode, rr) == mode # "rule" /\ (mode = "llm" \/ Escalates(rr))

\* what judgeHybrid returns once judgeByLLM has returned llmResult
judgeHybridReturn(mode, rr, llmResult) ==
    IF mode = "llm" THEN llmResult ELSE SetKey(llmResult, "ruleResult", rr)

-----------------------------------------------------------------------------
(* The orchestrator runSmokeTest of smoke_test.js.                         *)

PreviewLength == 200

\* the entry pushed for a prompt that was answered and judged
TestEntry(prompt, resp, j) ==
    [prompt |-> prompt,
     response_preview |-> Take(resp, PreviewLength),
     verdict |-> j.verdict,
     confidence |-> j.confidence,
     method |-> j.method]

\* the entry with the failure reported as the verdict NO
ErrorEntry_AsNo(prompt, message) ==
    [prompt |-> prompt, verdict |-> "NO"]

\* the entry pushed in the catch block of the loop
ErrorEntry(prompt, message) ==
    [prompt |-> prompt, error |-> message, verdict |-> "ERROR"]

\* Math.round(callSuccessRate * 100) / 100, in hundredths
SuccessRate(passes, total) == (200 * passes + total) \div (2 * total)

\* the value runSmokeTest returns
SmokeReport(sk, mode, ps, passes, tests) ==
    [skill_id |-> sk.name,
     skill_path |-> "/skills/" \o Basename,
     tested_at |-> "now",
     provider |-> "deepseek",
     judge_mode |-> mode,
     test_count |-> Len(ps),
     pass_count |-> passes,
     call_success_rate |-> SuccessRate(passes, Len(ps)),
     tests |-> tests]

JudgeModes == {"rule", "llm", "hybrid"}

MaxPrompts == 3

\* what the provider answers to a prompt
Responses ==
    { "No idea.",
      "The current weather conditions are sunny.",
      "I will check the current weather conditions.",
      "The weather-report skill reports the weather.",
      "Let me run weather-report to get the current conditions." }

\* what the provider answers to the judge prompt
Answers == {"YES", " partial ", "maybe"}

\* how a provider call fails
ProviderErrors == {"Request timeout", "connect ECONNREFUSED"}

SmokeDocs ==
    { [blocks |-> <<Block("weather-report", DescUsage,
                          <<"name: weather-report", "description: " \o DescUsage>>)>>,
       body |-> <<"", "# Weather", "Use the API tool.">>],
      [blocks |-> <<Block("alpha", DescShort, <<"name: alpha", "description: " \o DescShort>>),
                    Block("wx", DescLong, <<"name: wx", "description: " \o DescLong>>)>>,
       body |-> <<>>] }

\* judgeByRules on the responses and the skills of the runs
RuleTable ==
    [r \in Responses |->
        [d \in SmokeDocs |-> judgeByRules(r, parseSkill(Directory(TRUE, "missing", {}, FALSE),
                                                       Render(d)))]]

RuleJudgment(r) == RuleTable[r][doc]

Bump(counts, i) == [counts EXCEPT ![i] = @ + 1]

\* the value of a property nobody has
Undefined == [undefined |-> TRUE]

\* the properties every object inherits from Object.prototype
ObjectPrototype ==
    {"constructor", "toString", "toLocaleString", "valueOf", "hasOwnProperty",
     "isPrototypeOf", "propertyIsEnumerable", "__proto__"}

\* obj[key]: an own property, a property inherited from Object.prototype
\* (a function, which has none of the fields of a provider), or undefined
Get(obj, key) ==
    IF key \in DOMAIN obj THEN obj[key]
    ELSE IF key \in ObjectPrototype THEN [inherited |-> key]
    ELSE Undefined

DEFAULT_CONFIG ==
    [default_provider |-> "deepseek", test_count |-> 5, judge_mode |-> "hybrid",
     timeout_ms |-> 30000]

\* the configuration read from smoke_test_config.json: the defaults and the
\* providers
LoadedConfig ==
    [default_provider |-> "deepseek", test_count |-> 5, judge_mode |-> "hybrid",
     timeout_ms |-> 30000,
     providers |->
        [deepseek |-> [env_key |-> "DEEPSEEK_API_KEY",
                       base_url |-> "https://api.deepseek.com/v1",
                       model |-> "deepseek-chat"],
         claude |-> [env_key |-> "ANTHROPIC_API_KEY",
                     base_url |-> "https://api.anthropic.com/v1",
                     model |-> "claude-3-haiku-20240307",
                     is_anthropic |-> TRUE]]]

\* the values loadConfig returns
Configs == {DEFAULT_CONFIG, LoadedConfig}

\* an exception
Thrown(message) == [message |-> message]

\* new LLMProvider(config, providerName): the object, or what it throws
LLMProvider(cfg, name, e) ==
    IF "providers" \notin DOMAIN cfg
    THEN Thrown("Cannot read properties of undefined (reading '" \o name \o "')")
    ELSE LET providerConfig == Get(cfg.providers, name)
         IN  IF providerConfig = Undefined
             THEN Thrown("Unknown provider: " \o name)
             ELSE [providerName |-> name,
                   providerConfig |-> providerConfig,
                   \* "" stands for undefined and null as well
                   apiKey |-> IF "env_key" \in DOMAIN providerConfig
                                 /\ providerConfig.env_key \in DOMAIN e
                              THEN e[providerConfig.env_key]
                              ELSE ""]

\* hasApiKey(): !!this.apiKey
hasApiKey(provider) == provider.apiKey # ""

\* the provider names a run is asked for
ProviderNames == {"deepseek", "nope", "constructor"}

InitSmoke ==
    /\ pc = "start"
    /\ doc \in SmokeDocs
    /\ content = Render(doc)
    /\ fsys = Directory(TRUE, "missing", {}, FALSE)
    /\ EvalIdle
    /\ PipeIdle
    /\ env \in {EmptyObj, [k \in {"DEEPSEEK_API_KEY"} |-> "sk-env"]}
    /\ config \in Configs
    /\ providerName \in ProviderNames
    /\ llm = None
    /\ thrown = None
    /\ req = None
    /\ promise = None
    /\ skill = None
    /\ judgeMode \in JudgeModes
    /\ testCount \in 1..MaxPrompts
    /\ prompts = <<>>
    /\ idx = 0
    /\ response = None
    /\ ruleResult = None
    /\ judgment = None
    /\ results = <<>>
    /\ passCount = 0
    /\ inflight = 0
    /\ chatCalls = <<>>
    /\ judgeCalls = <<>>
    /\ chatLog = <<>>
    /\ judgeLog = None
    /\ smokeReport = None

\* main before the smoke test: the provider is constructed and its API key
\* looked for; an exception ends the run in the catch block of main, a
\* missing key ends it with process.exit(1)
CheckProvider ==
    /\ pc = "start"
    /\ LET provider == LLMProvider(config, providerName, env)
       IN  IF "message" \in DOMAIN provider
           THEN thrown' = provider /\ pc' = "failed"
           ELSE /\ thrown' = thrown
                /\ pc' = IF hasApiKey(provider) THEN "run" ELSE "exited"
    /\ UNCHANGED <<doc, content, fsys, pipeVars, skill, evalVars, smokeVars, env, config,
                   providerName, llm, req, promise>>

\* runSmokeTest up to the loop: new LLMProvider, parseSkill and
\* generateTestPrompts
StartSmokeTest ==
    /\ pc = "run"
    /\ LET provider == LLMProvider(config, providerName, env)
           sk == parseSkill(fsys, content)
           ps == generateTestPrompts(sk, testCount)
       IN  IF "message" \in DOMAIN provider
           THEN /\ thrown' = provider
                /\ pc' = "failed"
                /\ UNCHANGED <<llm, skill, prompts, chatCalls, judgeCalls, idx>>
           ELSE /\ llm' = provider
                /\ skill' = sk
                /\ prompts' = ps
                /\ chatCalls' = [i \in 1..Len(ps) |-> 0]
                /\ judgeCalls' = [i \in 1..Len(ps) |-> 0]
                /\ idx' = 1
                /\ pc' = "loop"
                /\ thrown' = thrown
    /\ results' = <<>>
    /\ passCount' = 0
    /\ UNCHANGED <<doc, content, fsys, pipeVars, evalVars, judgeMode, testCount, response,
                   ruleResult, judgment, inflight, chatLog, judgeLog, smokeReport,
                   env, config, providerName, req, promise>>

\* the loop body up to its first await: llm.chat(systemPrompt, prompt)
IssueChat ==
    /\ pc = "loop"
    /\ idx <= Len(prompts)
    /\ inflight' = inflight + 1
    /\ chatCalls' = Bump(chatCalls, idx)
    /\ response' = None
    /\ ruleResult' = None
    /\ judgment' = None
    /\ judgeLog' = None
    /\ pc' = "awaitChat"
    /\ UNCHANGED <<doc, content, fsys, pipeVars, procVars, skill, evalVars, judgeMode, testCount, prompts,
                   idx, results, passCount, judgeCalls, chatLog, smokeReport>>

\* the response arrives and judgeByLLM is called without being awaited: the
\* rule result is returned while the request of the model judge is pending
ChatResolves_FireAndForget ==
    /\ pc = "awaitChat"
    /\ \E r \in Responses :
        LET rr == RuleJudgment(r)
        IN  /\ response' = r
            /\ chatLog' = Append(chatLog, Resolved(r))
            /\ ruleResult' = rr
            /\ judgment' = rr
            /\ IF CallsModelJudge(judgeMode, rr)
               THEN /\ judgeCalls' = Bump(judgeCalls, idx)
                    /\ inflight' = inflight
               ELSE /\ judgeCalls' = judgeCalls
                    /\ inflight' = inflight - 1
    /\ pc' = "record"
    /\ UNCHANGED <<doc, content, fsys, pipeVars, procVars, skill, evalVars, judgeMode, testCount, prompts,
                   idx, results, passCount, chatCalls, judgeLog, smokeReport>>

\* the response arrives; judgeHybrid runs judgeByRules and either returns
\* its result or calls judgeByLLM, which issues llm.chat
ChatResolves ==
    /\ pc = "awaitChat"
    /\ \E r \in Responses :
        LET rr == RuleJudgment(r)
        IN  /\ response' = r
            /\ chatLog' = Append(chatLog, Resolved(r))
            /\ ruleResult' = rr
            /\ IF CallsModelJudge(judgeMode, rr)
               THEN /\ judgeCalls' = Bump(judgeCalls, idx)
                    /\ inflight' = inflight
                    /\ judgment' = None
                    /\ pc' = "awaitJudge"
               ELSE /\ judgeCalls' = judgeCalls
                    /\ inflight' = inflight - 1
                    /\ judgment' = rr
                    /\ pc' = "record"
    /\ UNCHANGED <<doc, content, fsys, pipeVars, procVars, skill, evalVars, judgeMode, testCount, prompts,
                   idx, results, passCount, chatCalls, judgeLog, smokeReport>>

\* a catch block that gives up the entries and the passes recorded so far
ChatRejects_Retracts ==
    /\ pc = "awaitChat"
    /\ \E e \in ProviderErrors :
        /\ results' = <<ErrorEntry(prompts[idx], e)>>
        /\ chatLog' = Append(chatLog, Rejected(e))
    /\ passCount' = 0
    /\ inflight' = inflight - 1
    /\ idx' = idx + 1
    /\ pc' = "loop"
    /\ UNCHANGED <<doc, content, fsys, pipeVars, procVars, skill, evalVars, judgeMode, testCount, prompts,
                   response, ruleResult, judgment, chatCalls, judgeCalls,
                   judgeLog, smokeReport>>

\* the response call rejects: the catch block of the loop
ChatRejects ==
    /\ pc = "awaitChat"
    /\ \E e \in ProviderErrors :
        /\ results' = Append(results, ErrorEntry(prompts[idx], e))
        /\ chatLog' = Append(chatLog, Rejected(e))
    /\ inflight' = inflight - 1
    /\ idx' = idx + 1
    /\ pc' = "loop"
    /\ UNCHANGED <<doc, content, fsys, pipeVars, procVars, skill, evalVars, judgeMode, testCount, prompts,
                   response, ruleResult, judgment, passCount, chatCalls, judgeCalls,
                   judgeLog, smokeReport>>

\* the call of judgeByLLM settles and judgeHybrid returns
JudgeSettles(reply) ==
    /\ pc = "awaitJudge"
    /\ judgeLog' = reply
    /\ judgment' = judgeHybridReturn(judgeMode, ruleResult, judgeByLLM(reply))
    /\ inflight' = inflight - 1
    /\ pc' = "record"
    /\ UNCHANGED <<doc, content, fsys, pipeVars, procVars, skill, evalVars, judgeMode, testCount, prompts,
                   idx, response, ruleResult, results, passCount, chatCalls, judgeCalls,
                   chatLog, smokeReport>>

JudgeResolves == \E a \in Answers : JudgeSettles(Resolved(a))

JudgeRejects == \E e \in ProviderErrors : JudgeSettles(Rejected(e))

\* the rest of the try block with PARTIAL counted as a pass
Record_CountsPartial ==
    /\ pc = "record"
    /\ passCount' = IF judgment.verdict \in {"YES", "PARTIAL"} THEN passCount + 1 ELSE passCount
    /\ results' = Append(results, TestEntry(prompts[idx], response, judgment))
    /\ idx' = idx + 1
    /\ pc' = "loop"
    /\ UNCHANGED <<doc, content, fsys, pipeVars, procVars, skill, evalVars, judgeMode, testCount, prompts,
                   response, ruleResult, judgment, inflight, chatCalls, judgeCalls,
                   chatLog, judgeLog, smokeReport>>

\* the rest of the try block: passCount and results.push
Record ==
    /\ pc = "record"
    /\ passCount' = IF judgment.verdict = "YES" THEN passCount + 1 ELSE passCount
    /\ results' = Append(results, TestEntry(prompts[idx], response, judgment))
    /\ idx' = idx + 1
    /\ pc' = "loop"
    /\ UNCHANGED <<doc, content, fsys, pipeVars, procVars, skill, evalVars, judgeMode, testCount, prompts,
                   response, ruleResult, judgment, inflight, chatCalls, judgeCalls,
                   chatLog, judgeLog, smokeReport>>

\* the loop ends and runSmokeTest returns its report
Finish ==
    /\ pc = "loop"
    /\ idx > Len(prompts)
    /\ smokeReport' = SmokeReport(skill, judgeMode, prompts, passCount, results)
    /\ pc' = "done"
    /\ UNCHANGED <<doc, content, fsys, pipeVars, procVars, skill, evalVars, judgeMode, testCount, prompts,
                   idx, response, ruleResult, judgment, results, passCount, inflight,
                   chatCalls, judgeCalls, chatLog, judgeLog>>

NextSmoke ==
    \/ CheckProvider
    \/ StartSmokeTest
    \/ IssueChat
    \/ ChatResolves
    \/ ChatRejects
    \/ JudgeResolves
    \/ JudgeRejects
    \/ Record
    \/ Finish

SpecSmoke == InitSmoke /\ [][NextSmoke]_vars

-----------------------------------------------------------------------------
(* Properties of the judges and of the orchestrator.                       *)

\* C8: in hybrid mode judgeHybrid calls the model judge exactly once when
\* the rule verdict is PARTIAL or the rule confidence is below 0.7 and not
\* at all otherwise; when it is not called, the verdict, the confidence and
\* the method returned are those of the rule result.
C8_EscalationOnlyWhenUncertain ==
    /\ judgeMode = "hybrid" => \A i \in 1..Len(judgeCalls) : judgeCalls[i] <= 1
    /\ (judgeMode = "hybrid" /\ pc = "record") =>
            LET uncertain == ruleResult.verdict = "PARTIAL" \/ ruleResult.confidence < 70
            IN  /\ judgeCalls[idx] = (IF uncertain THEN 1 ELSE 0)
                /\ ~uncertain =>
                        /\ judgment.verdict = ruleResult.verdict
                        /\ judgment.confidence = ruleResult.confidence
                        /\ judgment.method = "rule"

\* the second prompt is judged YES with confidence 0.9 by the rules and
\* returned without a model-judge call, after a first prompt that was escalated
C8_Witness ==
    /\ judgeMode = "hybrid"
    /\ pc = "record"
    /\ idx = 2
    /\ judgeCalls[1] = 1
    /\ judgeCalls[2] = 0
    /\ ruleResult.verdict = "YES"
    /\ ruleResult.confidence = 90
    /\ judgment = ruleResult

\* C9: in hybrid mode, when the escalated model-judge call fails,
\* judgeHybrid returns the verdict and the confidence of the rule judge,
\* annotated with the error.
C9_FallbackToRuleResult ==
    (judgeMode = "hybrid" /\ pc = "record" /\ judgeLog # None /\ ~judgeLog.ok) =>
        /\ judgment.verdict = ruleResult.verdict
        /\ judgment.confidence = ruleResult.confidence
        /\ \E k \in DOMAIN judgment : judgment[k] = judgeLog.message

\* C10: when the provider call for prompt i fails, entry i of the tests is
\* the verdict ERROR with the error text, no prompt is called twice, every
\* prompt is called, the report has test_count = N and N entries in prompt
\* order, and pass_count counts the YES verdicts of the other entries.
C10_FailedPromptIsTerminalError ==
    pc = "done" =>
        LET N == Len(prompts)
            tests == smokeReport.tests
        IN  /\ smokeReport.test_count = N
            /\ Len(tests) = N
            /\ Len(chatLog) = N
            /\ \A i \in 1..N :
                /\ tests[i].prompt = prompts[i]
                /\ chatCalls[i] = 1
                /\ ~chatLog[i].ok =>
                        /\ tests[i].verdict = "ERROR"
                        /\ "error" \in DOMAIN tests[i]
                        /\ tests[i].error = chatLog[i].message
                /\ chatLog[i].ok => tests[i].verdict # "ERROR"
            /\ smokeReport.pass_count =
                    Cardinality({i \in 1..N : chatLog[i].ok /\ tests[i].verdict = "YES"})

\* three prompts, the second fails, the two others pass
C10_Witness ==
    /\ pc = "done"
    /\ Len(prompts) = 3
    /\ chatLog[1].ok /\ ~chatLog[2].ok /\ chatLog[3].ok
    /\ smokeReport.tests[2].verdict = "ERROR"
    /\ smokeReport.tests[2].error = "Request timeout"
    /\ smokeReport.test_count = 3
    /\ smokeReport.pass_count = 2

\* C11: during runSmokeTest at most one provider request is in flight; the
\* response call of a prompt is issued only after the calls of the prompt
\* before it have settled and its result has been recorded.
C11_OneRequestInFlight ==
    /\ inflight \in {0, 1}
    /\ pc \in {"awaitChat", "awaitJudge"} => inflight = 1
    /\ pc \in {"loop", "record", "done"} => inflight = 0
    /\ pc = "awaitChat" => Len(results) = idx - 1
    /\ \A i \in 1..Len(chatCalls) : i > idx => chatCalls[i] = 0 /\ judgeCalls[i] = 0

\* the response call of the second prompt is pending after the first prompt
\* was answered, judged by the model judge and recorded
C11_Witness ==
    /\ pc = "awaitChat"
    /\ idx = 2
    /\ inflight = 1
    /\ judgeCalls[1] = 1
    /\ Len(results) = 1
    /\ chatCalls = <<1, 1, 0>>

\* C12: at the end of a run with at least one prompt, pass_count is the
\* number of entries with the verdict YES (PARTIAL, NO, UNKNOWN and ERROR do
\* not count), 0 <= pass_count <= test_count, and call_success_rate is
\* pass_count / test_count rounded to two decimals.
C12_PassCountAndRate ==
    (pc = "done" /\ Len(prompts) >= 1) =>
        LET tests == smokeReport.tests
            N == smokeReport.test_count
            p == smokeReport.pass_count
            rate == smokeReport.call_success_rate
            off == rate * N - 100 * p
        IN  /\ \A i \in 1..Len(tests) :
                    tests[i].verdict \in {"YES", "PARTIAL", "NO", "UNKNOWN", "ERROR"}
            /\ p = Cardinality({i \in 1..Len(tests) : tests[i].verdict = "YES"})
            /\ 0 <= p /\ p <= N
            \* rate is a number of hundredths at most half a hundredth off p / N
            /\ 2 * off <= N /\ -2 * off < N

\* one YES among a PARTIAL and an UNKNOWN: pass_count 1 of 3, rate 0.33
C12_Witness ==
    /\ pc = "done"
    /\ Len(smokeReport.tests) = 3
    /\ smokeReport.tests[1].verdict = "PARTIAL"
    /\ smokeReport.tests[2].verdict = "YES"
    /\ smokeReport.tests[3].verdict = "UNKNOWN"
    /\ smokeReport.pass_count = 1
    /\ smokeReport.call_success_rate = 33

-----------------------------------------------------------------------------
(* The rule judge on responses put together from pieces.                   *)

\* a piece of a response: its text, the keywords of the skills and the skill
\* names written in it, and whether it is action language
Piece(text, words, names, action) ==
    [text |-> text, words |-> words, names |-> names, action |-> action]

PieceLibrary ==
    << Piece("Weather-Report", {"weather", "report"}, {"weather-report"}, FALSE),
       Piece("WX", {}, {"wx"}, FALSE),
       Piece("alpha_beta-gamma_delta-omega", {"alpha", "beta", "gamma", "delta", "omega"},
             {"alpha_beta-gamma_delta-omega"}, FALSE),
       Piece("current conditions", {"current", "conditions"}, {}, FALSE),
       Piece("Alpha gamma fetch", {"alpha", "gamma", "fetch"}, {}, FALSE),
       Piece("values", {"values"}, {}, FALSE),
       Piece("I will", {}, {}, TRUE),
       Piece("you cannot", {}, {}, FALSE),
       Piece("Here's", {}, {}, TRUE),
       Piece("Lorem ipsum dolor sit amet, consectetur adipiscing elit, sed do eiusmod tempor incididunt ut labore ",
             {}, {}, FALSE) >>

\* a skill document and the keywords the judge is to draw from it
RuleSkill(name, desc, keywords) ==
    [blocks |-> <<Block(name, desc, <<"name: " \o name, "description: " \o desc>>)>>,
     body |-> <<>>,
     keywords |-> keywords]

RuleSkills ==
    { RuleSkill("weather-report", DescUsage,
                <<"weather", "report", "when", "need", "current", "weather", "conditions">>),
      RuleSkill("wx", "Get it now", <<>>),
      RuleSkill("alpha_beta-gamma_delta-omega",
                "Uses Fetch, then parse2 values quickly from files and more things",
                <<"alpha", "beta", "gamma", "delta", "omega",
                  "uses", "fetch", "then", "values", "quickly">>) }

\* the texts of pieces joined by single spaces
RECURSIVE JoinPieces(_)
JoinPieces(ps) ==
    IF ps = <<>> THEN ""
    ELSE IF Len(ps) = 1 THEN ps[1].text
    ELSE ps[1].text \o " " \o JoinPieces(Tail(ps))

InitRules ==
    /\ pc = "start"
    /\ \E d \in RuleSkills, S \in SUBSET (1..Len(PieceLibrary)) :
        /\ doc = [skill |-> d, pieces |-> Pick(PieceLibrary, S, 1)]
        /\ content = Render(d)
        /\ response = JoinPieces(Pick(PieceLibrary, S, 1))
    /\ fsys = Directory(TRUE, "missing", {}, FALSE)
    /\ EvalIdle
    /\ PipeIdle
    /\ ProcIdle
    /\ skill = parseSkill(fsys, content)
    /\ judgeMode = "rule"
    /\ testCount = 0
    /\ prompts = <<>>
    /\ idx = 0
    /\ ruleResult = None
    /\ judgment = None
    /\ results = <<>>
    /\ passCount = 0
    /\ inflight = 0
    /\ chatCalls = <<>>
    /\ judgeCalls = <<>>
    /\ chatLog = <<>>
    /\ judgeLog = None
    /\ smokeReport = None

\* const ruleResult = judgeByRules(response, skill)
JudgeByRules ==
    /\ pc = "start"
    /\ ruleResult' = judgeByRules(response, skill)
    /\ pc' = "judged"
    /\ UNCHANGED <<doc, content, fsys, pipeVars, procVars, skill, evalVars, judgeMode, testCount, prompts,
                   idx, response, judgment, results, passCount, inflight, chatCalls,
                   judgeCalls, chatLog, judgeLog, smokeReport>>

SpecRules == InitRules /\ [][JudgeByRules]_vars

\* the confidence the claimed formula gives for the pieces of the response
ClaimedConfidence(d, resp) ==
    LET kws == d.skill.keywords
        written == UNION {d.pieces[i].words : i \in 1..Len(d.pieces)}
        matched == Cardinality({k \in 1..Len(kws) : kws[k] \in written})
        named == \E i \in 1..Len(d.pieces) : d.skill.blocks[1].name \in d.pieces[i].names
        action == \E i \in 1..Len(d.pieces) : d.pieces[i].action
    IN  (IF named THEN 40 ELSE 0)
        + (IF Len(kws) > 0 /\ 10 * matched > 3 * Len(kws) THEN 30 ELSE 0)
        + (IF action THEN 20 ELSE 0)
        + (IF Len(resp) > 100 THEN 10 ELSE 0)

\* C13: the confidence of judgeByRules is 0.4 for the skill name in the
\* response, plus 0.3 for a match ratio above 0.3 (matched keywords over all
\* keywords, 0 without keywords), plus 0.2 for action language, plus 0.1 for
\* a response longer than 100 characters; the verdict is YES from 0.5,
\* PARTIAL from 0.3 and NO below, and the method is rule.
C13_RuleConfidence ==
    pc = "judged" =>
        LET c == ClaimedConfidence(doc, response)
        IN  /\ ruleResult.confidence = c
            /\ (ruleResult.verdict = "YES") <=> (c >= 50)
            /\ (ruleResult.verdict = "PARTIAL") <=> (30 <= c /\ c < 50)
            /\ (ruleResult.verdict = "NO") <=> (c < 30)
            /\ ruleResult.method = "rule"

\* three of ten keywords matched: the ratio is 0.3, not above it, and with
\* action language alone the verdict is NO
C13_Witness ==
    /\ pc = "judged"
    /\ Len(doc.skill.keywords) = 10
    /\ Len(ruleResult.matchedKeywords) = 3
    /\ ruleResult.confidence = 20
    /\ ruleResult.verdict = "NO"

-----------------------------------------------------------------------------
(* The model judge on its own: one call of judgeByLLM.                     *)

\* the words a judge model answers with, and the verdict each one is when
\* trimmed and upper-cased ("" for none)
AnswerWord(text, means) == [text |-> text, means |-> means]

AnswerWords ==
    { AnswerWord("YES", "YES"), AnswerWord("yes", "YES"), AnswerWord("Yes", "YES"),
      AnswerWord("PARTIAL", "PARTIAL"), AnswerWord("Partial", "PARTIAL"),
      AnswerWord("NO", "NO"), AnswerWord("no", "NO"),
      AnswerWord("YES.", ""), AnswerWord("NO WAY", ""), AnswerWord("Y ES", ""),
      AnswerWord("maybe", ""), AnswerWord("UNKNOWN", ""), AnswerWord("", "") }

LeftPads == {"", " ", "\n", "\t ", "\r\n"}
RightPads == {"", " ", "\n", " \r\n"}

InitJudge ==
    /\ pc = "start"
    /\ doc = None
    /\ content = <<>>
    /\ fsys = Directory(TRUE, "missing", {}, FALSE)
    /\ EvalIdle
    /\ PipeIdle
    /\ ProcIdle
    /\ skill = None
    /\ judgeMode = "llm"
    /\ testCount = 0
    /\ prompts = <<>>
    /\ idx = 0
    /\ response = ""
    /\ ruleResult = None
    /\ judgment = None
    /\ results = <<>>
    /\ passCount = 0
    /\ inflight = 0
    /\ chatCalls = <<>>
    /\ judgeCalls = <<0>>
    /\ chatLog = <<>>
    /\ judgeLog = None
    /\ smokeReport = None

\* judgeByLLM up to its await: const result = await llm.chat(...)
JudgeChat ==
    /\ pc = "start"
    /\ judgeCalls' = <<1>>
    /\ inflight' = 1
    /\ pc' = "awaitJudge"
    /\ UNCHANGED <<doc, content, fsys, pipeVars, procVars, skill, evalVars, judgeMode, testCount, prompts,
                   idx, response, ruleResult, judgment, results, passCount, chatCalls,
                   chatLog, judgeLog, smokeReport>>

\* the call settles and judgeByLLM returns; d is what the reply was made of
JudgeReturns(d, reply) ==
    /\ pc = "awaitJudge"
    /\ doc' = d
    /\ judgeLog' = reply
    /\ judgment' = judgeByLLM(reply)
    /\ inflight' = 0
    /\ pc' = "returned"
    /\ UNCHANGED <<content, fsys, pipeVars, procVars, skill, evalVars, judgeMode, testCount, prompts, idx,
                   response, ruleResult, results, passCount, chatCalls, judgeCalls,
                   chatLog, smokeReport>>

LlmAnswers ==
    \E w \in AnswerWords, l \in LeftPads, r \in RightPads :
        JudgeReturns([word |-> w, left |-> l, right |-> r],
                     Resolved(l \o w.text \o r))

LlmFails == \E e \in ProviderErrors : JudgeReturns(None, Rejected(e))

NextJudge == JudgeChat \/ LlmAnswers \/ LlmFails

SpecJudge == InitJudge /\ [][NextJudge]_vars

\* C14: judgeByLLM always returns: after a provider failure the verdict is
\* UNKNOWN with confidence 0 and the failure reason as error; after an answer
\* that is not YES, PARTIAL or NO once trimmed and upper-cased the verdict is
\* NO with confidence 0.5 and an error annotation; after a recognised answer
\* it is that verdict with confidence 0.9; the method is llm in every case.
C14_ModelJudgeTotal ==
    pc = "returned" =>
        /\ judgment.method = "llm"
        /\ ~judgeLog.ok =>
            /\ judgment.verdict = "UNKNOWN"
            /\ judgment.confidence = 0
            /\ judgment.error = judgeLog.message
        /\ (judgeLog.ok /\ doc.word.means = "") =>
            /\ judgment.verdict = "NO"
            /\ judgment.confidence = 50
            /\ "error" \in DOMAIN judgment
        /\ (judgeLog.ok /\ doc.word.means # "") =>
            /\ judgment.verdict = doc.word.means
            /\ judgment.confidence = 90
            /\ "error" \notin DOMAIN judgment

\* the answer "\r\nPartial\n" is recognised as PARTIAL
C14_Witness ==
    /\ pc = "returned"
    /\ judgeLog.ok
    /\ judgeLog.text = "\r\nPartial\n"
    /\ judgment.verdict = "PARTIAL"
    /\ judgment.confidence = 90

-----------------------------------------------------------------------------
(* The prompt generator on its own.                                        *)

\* the largest requested count
MaxCount == 7

PromptNames == {"weather-report", "wx", "pdf_tools", "a"}
PromptDescs == {DescUsage, DescLong, "Convert files, quickly!?", "Get it now.."}

InitPrompts ==
    /\ pc = "start"
    /\ \E n \in PromptNames, d \in PromptDescs :
        /\ doc = [blocks |-> <<Block(n, d, <<"name: " \o n, "description: " \o d>>)>>,
                  body |-> <<>>]
        /\ content = Render(doc)
    /\ fsys = Directory(TRUE, "missing", {}, FALSE)
    /\ EvalIdle
    /\ PipeIdle
    /\ ProcIdle
    /\ skill = parseSkill(fsys, content)
    /\ judgeMode = "rule"
    /\ testCount \in 1..MaxCount
    /\ prompts = <<>>
    /\ idx = 0
    /\ response = ""
    /\ ruleResult = None
    /\ judgment = None
    /\ results = <<>>
    /\ passCount = 0
    /\ inflight = 0
    /\ chatCalls = <<>>
    /\ judgeCalls = <<>>
    /\ chatLog = <<>>
    /\ judgeLog = None
    /\ smokeReport = None

\* const prompts = generateTestPrompts(skill, config, testCount)
GenerateTestPrompts ==
    /\ pc = "start"
    /\ prompts' = generateTestPrompts(skill, testCount)
    /\ pc' = "generated"
    /\ UNCHANGED <<doc, content, fsys, pipeVars, procVars, skill, evalVars, judgeMode, testCount, idx,
                   response, ruleResult, judgment, results, passCount, inflight,
                   chatCalls, judgeCalls, chatLog, judgeLog, smokeReport>>

SpecPrompts == InitPrompts /\ [][GenerateTestPrompts]_vars

\* C15: generateTestPrompts returns exactly N prompts for every requested
\* count N >= 1, truncating below the number of templates and padding above
\* it, built from the four description templates followed by the name-based
\* fallback.
C15_ExactlyNPrompts ==
    (pc = "generated" /\ testCount >= 1) => Len(prompts) = testCount

-----------------------------------------------------------------------------
(* Loading of the .env files at startup.                                   *)

\* an assignment whenever the line has one
Assigns_Always(e, key) == TRUE

\* !process.env[key]: the key is unset or set to the empty string
Assigns(e, key) == key \notin DOMAIN e \/ e[key] = ""

\* the body of the loop of loadEnvFile for one line
EnvLineLoaded(e, line) ==
    LET trimmed == Trim(line)
        eqIdx == IndexOf(trimmed, "=")
        key == Trim(SubSeq(trimmed, 1, eqIdx - 1))
        value == StripQuotes(Trim(SubSeq(trimmed, eqIdx + 1, Len(trimmed))))
    IN  IF trimmed = "" \/ StartsWith(trimmed, "#") THEN e
        ELSE IF eqIdx > 1 /\ Assigns(e, key) THEN SetKey(e, key, value)
        ELSE e

RECURSIVE LoadLines(_, _)
LoadLines(e, lines) ==
    IF lines = <<>> THEN e ELSE LoadLines(EnvLineLoaded(e, Head(lines)), Tail(lines))

\* loadEnvFile(filePath): process.env afterwards; a file that does not exist
\* or cannot be read leaves it as it is
loadEnvFile(e, file) == IF file.state = "ok" THEN LoadLines(e, file.lines) ELSE e

EnvKeySeq == <<"DEEPSEEK_API_KEY", "ANTHROPIC_API_KEY">>
EnvKeys == {EnvKeySeq[i] : i \in 1..Len(EnvKeySeq)}

\* how a file writes a key: not at all, or a value in a style
EnvOption(value, style) == [value |-> value, style |-> style]

EnvOptions(v) ==
    { EnvOption("", "absent"), EnvOption("", "plain"), EnvOption("", "quoted"),
      EnvOption(v, "plain"), EnvOption(v, "quoted") }

EnvLine(k, o) ==
    CASE o.style = "absent" -> <<>>
      [] o.style = "plain" -> <<k \o "=" \o o.value>>
      [] o.style = "quoted" -> <<"  " \o k \o " = \"" \o o.value \o "\"  \r">>

\* the lines every .env file of the model starts with
EnvPreamble == <<"# settings", "", "  #DEEPSEEK_API_KEY=commented", "no assignment here",
                 "=orphan">>

RECURSIVE EnvLines(_, _)
EnvLines(entries, i) ==
    IF i > Len(EnvKeySeq) THEN <<>>
    ELSE EnvLine(EnvKeySeq[i], entries[EnvKeySeq[i]]) \o EnvLines(entries, i + 1)

\* a .env file: whether it is there and readable, what it was written from
\* and its lines
EnvFile(state, entries) ==
    [state |-> state, entries |-> entries,
     lines |-> IF state = "ok" THEN EnvPreamble \o EnvLines(entries, 1) ELSE <<>>]

EnvFiles(v) ==
    {EnvFile("ok", es) : es \in [EnvKeys -> EnvOptions(v)]}
    \cup {EnvFile(st, [k \in EnvKeys |-> EnvOption("", "absent")]) :
            st \in {"missing", "unreadable"}}

\* the environment the process starts with
StartEnvs ==
    UNION {[K -> {"", "sk-env"}] : K \in SUBSET EnvKeys}

InitEnv ==
    /\ pc = "start"
    /\ env \in StartEnvs
    /\ fsys \in [user : EnvFiles("sk-user=1"), project : EnvFiles("sk-proj")]
    /\ doc = [env0 |-> env]
    /\ content = <<>>
    /\ skill = None
    /\ EvalIdle
    /\ PipeIdle
    /\ SmokeIdle
    /\ config = None
    /\ providerName = ""
    /\ llm = None
    /\ thrown = None
    /\ req = None
    /\ promise = None

\* loadEnvFile(path.join(os.homedir(), '.ontos', '.env'))
LoadUserEnv ==
    /\ pc = "start"
    /\ env' = loadEnvFile(env, fsys.user)
    /\ pc' = "userLoaded"
    /\ UNCHANGED <<doc, content, fsys, pipeVars, skill, evalVars, smokeVars, config, providerName,
                   llm, thrown, req, promise>>

\* loadEnvFile(path.join(__dirname, '.env'))
LoadProjectEnv ==
    /\ pc = "userLoaded"
    /\ env' = loadEnvFile(env, fsys.project)
    /\ pc' = "envLoaded"
    /\ UNCHANGED <<doc, content, fsys, pipeVars, skill, evalVars, smokeVars, config, providerName,
                   llm, thrown, req, promise>>

NextEnv == LoadUserEnv \/ LoadProjectEnv

SpecEnv == InitEnv /\ [][NextEnv]_vars

\* the value of a key in an environment, empty when unset
Effective(e, k) == IF k \in DOMAIN e THEN e[k] ELSE ""

\* the value a file was written with for a key, empty when it has none
Written(file, k) == IF file.state = "ok" THEN file.entries[k].value ELSE ""

\* C16: after the user-scoped and then the project-local file are loaded,
\* the value of every key is the first non-empty one of the process
\* environment, the user-scoped file and the project-local file, and a
\* non-empty value of the environment is never overwritten by a file.
C16_FirstNonEmptyWins ==
    \A k \in EnvKeys :
        LET e == Effective(doc.env0, k)
            u == Written(fsys.user, k)
            p == Written(fsys.project, k)
        IN  /\ e # "" => Effective(env, k) = e
            /\ pc = "envLoaded" =>
                Effective(env, k) = (IF e # "" THEN e ELSE IF u # "" THEN u ELSE p)

\* the environment has the key empty, the user-scoped file has it quoted and
\* empty, and the value of the project-local file is the one in effect
C16_Witness ==
    /\ pc = "envLoaded"
    /\ DOMAIN doc.env0 = EnvKeys
    /\ doc.env0["DEEPSEEK_API_KEY"] = ""
    /\ fsys.user.state = "ok"
    /\ fsys.user.entries["DEEPSEEK_API_KEY"] = EnvOption("", "quoted")
    /\ fsys.project.entries["DEEPSEEK_API_KEY"] = EnvOption("sk-proj", "quoted")
    /\ env["DEEPSEEK_API_KEY"] = "sk-proj"
    /\ doc.env0["ANTHROPIC_API_KEY"] = "sk-env"
    /\ fsys.user.entries["ANTHROPIC_API_KEY"] = EnvOption("sk-user=1", "plain")
    /\ env["ANTHROPIC_API_KEY"] = "sk-env"

\* C17: a provider name that is not listed in the providers of the
\* configuration is a configuration error raised when the provider is
\* constructed, and a smoke-test run raises it before any provider chat is
\* attempted.
C17_UnlistedProviderThrows ==
    (pc # "start" /\ ("providers" \notin DOMAIN config
                      \/ providerName \notin DOMAIN config.providers)) =>
        /\ pc = "failed"
        /\ thrown # None
        /\ llm = None
        /\ chatCalls = <<>>
        /\ inflight = 0

-----------------------------------------------------------------------------
(* One provider call: _callOpenAICompatible and _callAnthropic.            *)

\* a response body: the text received and the value JSON.parse gives for it
\* (None when it throws)
Body(raw, json) == [raw |-> raw, json |-> json]

Bodies ==
    { Body("{choices:[{message:{content:'Sunny.'}}]}",
           [choices |-> <<[message |-> [content |-> "Sunny."]]>>]),
      Body("{content:[{text:'Sunny.'}]}", [content |-> <<[text |-> "Sunny."]>>]),
      Body("{error:{message:'Invalid API key'}}", [error |-> [message |-> "Invalid API key"]]),
      Body("{id:'x'}", [id |-> "x"]),
      Body("<html>502</html>", None),
      Body("", None) }

\* the errors of the socket before the request is destroyed
NetworkErrors == {"connect ECONNREFUSED", "getaddrinfo ENOTFOUND"}

\* the error of a request destroyed before its response is complete
SocketHangUp == "socket hang up"

\* JSON.parse(data), None when it throws
JSONparse(data) ==
    IF \E b \in Bodies : b.raw = data
    THEN (CHOOSE b \in Bodies : b.raw = data).json
    ELSE None

\* the chunks a body arrives in
Chunks(raw) ==
    IF Len(raw) < 2 THEN (IF raw = "" THEN <<>> ELSE <<raw>>)
    ELSE <<SubSeq(raw, 1, Len(raw) \div 2), SubSeq(raw, Len(raw) \div 2 + 1, Len(raw))>>

\* the handler of the 'end' event of the response: what it settles the
\* promise with
OnEnd(data, anthropic) ==
    LET json == JSONparse(data)
        failed == Rejected("Failed to parse response: " \o Take(data, 200))
    IN  IF json = None THEN failed
        ELSE IF "error" \in DOMAIN json THEN Rejected(json.error.message)
        ELSE IF anthropic
             THEN (IF "content" \in DOMAIN json THEN Resolved(json.content[1].text)
                   ELSE failed)
             ELSE (IF "choices" \in DOMAIN json
                   THEN Resolved(json.choices[1].message.content) ELSE failed)

\* every call of resolve or reject takes effect
Settle_Overwrite(outcome) ==
    /\ promise' = outcome
    /\ chatLog' = Append(chatLog, outcome)

\* resolve or reject of the promise: only the first call takes effect;
\* chatLog keeps every call
Settle(outcome) ==
    /\ promise' = IF promise = None THEN outcome ELSE promise
    /\ chatLog' = Append(chatLog, outcome)

InitCall ==
    /\ pc = "start"
    /\ doc = None
    /\ content = <<>>
    /\ fsys = Directory(TRUE, "missing", {}, FALSE)
    /\ skill = None
    /\ EvalIdle
    /\ PipeIdle
    /\ SmokeIdle
    /\ env = [k \in EnvKeys |-> "sk-env"]
    /\ config = LoadedConfig
    /\ providerName \in DOMAIN LoadedConfig.providers
    /\ llm = LLMProvider(config, providerName, env)
    /\ thrown = None
    /\ req = None
    /\ promise = None

\* chat: the promise is created and the request written and ended
Chat ==
    /\ pc = "start"
    /\ req' = [timeout |-> config.timeout_ms, destroyed |-> FALSE, timedOut |-> FALSE,
               errored |-> FALSE, ended |-> FALSE, res |-> FALSE, chunks |-> <<>>,
               data |-> ""]
    /\ inflight' = 1
    /\ pc' = "awaitChat"
    /\ UNCHANGED <<doc, content, fsys, pipeVars, skill, evalVars, judgeMode, testCount, prompts,
                   idx, response, ruleResult, judgment, results, passCount, chatCalls,
                   judgeCalls, chatLog, judgeLog, smokeReport, env, config,
                   providerName, llm, thrown, promise>>

CallUnchanged ==
    UNCHANGED <<pc, doc, content, fsys, pipeVars, skill, evalVars, judgeMode, testCount, prompts,
                idx, response, ruleResult, judgment, results, passCount, inflight,
                chatCalls, judgeCalls, judgeLog, smokeReport, env, config, providerName,
                llm, thrown>>

\* req.on('timeout'): the socket was idle for timeout_ms while the request
\* was in flight; the request is destroyed and the promise rejected
OnTimeout ==
    /\ req # None
    /\ ~req.destroyed /\ ~req.errored /\ ~req.ended
    /\ req' = [req EXCEPT !.destroyed = TRUE, !.timedOut = TRUE]
    /\ Settle(Rejected("Request timeout"))
    /\ CallUnchanged

\* req.on('error', reject): a failure of the socket, or the error the
\* destroyed request emits afterwards
OnError ==
    /\ req # None
    /\ ~req.errored /\ ~req.ended
    /\ req' = [req EXCEPT !.errored = TRUE]
    /\ IF req.destroyed THEN Settle(Rejected(SocketHangUp))
       ELSE \E e \in NetworkErrors : Settle(Rejected(e))
    /\ CallUnchanged

\* the callback of the request: the response has begun; data = ''
OnResponse ==
    /\ req # None
    /\ ~req.res /\ ~req.destroyed /\ ~req.errored
    /\ \E b \in Bodies : req' = [req EXCEPT !.res = TRUE, !.chunks = Chunks(b.raw)]
    /\ UNCHANGED <<promise, chatLog>>
    /\ CallUnchanged

\* res.on('data', chunk => data += chunk)
OnData ==
    /\ req # None
    /\ req.res /\ ~req.destroyed /\ ~req.errored /\ ~req.ended
    /\ req.chunks # <<>>
    /\ req' = [req EXCEPT !.data = @ \o Head(req.chunks), !.chunks = Tail(@)]
    /\ UNCHANGED <<promise, chatLog>>
    /\ CallUnchanged

\* res.on('end'): the whole body has arrived, or the response ends with what
\* had arrived when the request was destroyed
OnResponseEnd ==
    /\ req # None
    /\ req.res /\ ~req.errored /\ ~req.ended
    /\ req.chunks = <<>> \/ req.destroyed
    /\ req' = [req EXCEPT !.ended = TRUE]
    /\ Settle(OnEnd(req.data, "is_anthropic" \in DOMAIN llm.providerConfig))
    /\ CallUnchanged

\* the await of the caller continues with the outcome of the promise
Awaited ==
    /\ pc = "awaitChat"
    /\ promise # None
    /\ response' = promise
    /\ inflight' = 0
    /\ pc' = "settled"
    /\ UNCHANGED <<doc, content, fsys, pipeVars, skill, evalVars, judgeMode, testCount, prompts,
                   idx, ruleResult, judgment, results, passCount, chatCalls,
                   judgeCalls, chatLog, judgeLog, smokeReport, procVars>>

NextCall ==
    Chat \/ OnTimeout \/ OnError \/ OnResponse \/ OnData \/ OnResponseEnd \/ Awaited

SpecCall == InitCall /\ [][NextCall]_vars

\* C18: when the timeout of a provider call expires the request is destroyed
\* and the call fails with the timeout error, which is none of the other
\* network failures; every call settles exactly once: the outcome is that of
\* the first resolve or reject, and a socket error or response end after the
\* abort does not change the outcome the caller was given.
C18_TimeoutSettlesOnce ==
    /\ (req # None /\ req.timedOut) =>
            /\ req.destroyed
            /\ promise = Rejected("Request timeout")
            /\ ~promise.ok /\ promise.message \notin NetworkErrors \cup {SocketHangUp}
    /\ promise # None => (chatLog # <<>> /\ promise = chatLog[1])
    /\ promise = None => chatLog = <<>>
    /\ pc = "settled" => response = chatLog[1]

\* the request timed out, the caller was given the timeout error, and the
\* error of the destroyed request arrived afterwards
C18_Witness ==
    /\ pc = "settled"
    /\ req.timedOut
    /\ Len(chatLog) = 2
    /\ chatLog[2] = Rejected(SocketHangUp)
    /\ response = Rejected("Request timeout")
    /\ promise = response

-----------------------------------------------------------------------------
(* The actionability checker on bodies with known phrases and verbs.       *)

InitAction ==
    /\ pc = "start"
    /\ doc \in ActionDocs
    /\ content = Render(doc)
    /\ fsys = Directory(TRUE, "missing", {}, FALSE)
    /\ EvalIdle
    /\ PipeIdle
    /\ ProcIdle
    /\ skill = None
    /\ SmokeIdle

SpecAction == InitAction /\ [][EvaluateSkill]_vars

\* C19: with v vague phrases in the body the vague-language contribution to
\* the actionability score is +0.2 for v <= 3 and, for v > 3, -0.1 per
\* phrase beyond 3, capped at -0.3: -0.1 for v = 4, -0.2 for v = 5 and -0.3
\* for v >= 6.
C19_VaguePenaltyPerPhrase ==
    pc = "evaluated" =>
        LET v == doc.vague
            vagueContribution == IF v <= 3 THEN 20 ELSE 0 - 10 * Min(v - 3, 3)
            verbContribution == IF doc.verbs >= 3 THEN 20 ELSE 0
        IN  report.scores.actionability = 60 + vagueContribution + verbContribution

\* C20: checkActionability adds 0.2 when at least 3 distinct imperative
\* verbs appear in the body, and with 0, 1 or 2 verbs it adds nothing and
\* emits an informational issue.
C20_FewVerbsInformIssue ==
    pc = "evaluated" =>
        LET vagueContribution == IF doc.vague <= 3 THEN 20 ELSE 0 - 30
            informed == CountIssues(report.issues, "info", "FEW_IMPERATIVES")
        IN  IF doc.verbs >= 3
            THEN /\ report.scores.actionability = 60 + vagueContribution + 20
                 /\ informed = 0
            ELSE /\ report.scores.actionability = 60 + vagueContribution
                 /\ informed = 1

-----------------------------------------------------------------------------
(* The tool-reference checker on bodies with known evidence.               *)

InitTools ==
    /\ pc = "start"
    /\ doc \in ToolDocs
    /\ content = Render(doc)
    /\ fsys \in ToolDirectories
    /\ EvalIdle
    /\ PipeIdle
    /\ ProcIdle
    /\ skill = None
    /\ SmokeIdle

SpecTools == InitTools /\ [][EvaluateSkill]_vars

\* the files under scripts/ the body names that are not on disk
AbsentRefs ==
    {f \in UNION {doc.entries[i].refs : i \in 1..Len(doc.entries)} :
        ~(fsys.scripts = "dir" /\ f \in fsys.entries)}

\* C21: whenever the body names a script path that is absent on disk, the
\* report has an error-severity issue for it, whether the scripts directory
\* is missing, present but empty, or present and non-empty.
C21_BrokenRefIsError ==
    (pc = "evaluated" /\ AbsentRefs # {}) =>
        CountIssues(report.issues, "error", "BROKEN_SCRIPT_REF")
        + CountIssues(report.issues, "error", "SCRIPTS_DIR_MISSING") >= 1

\* C22: evaluateSkill never lets the failure of a checker escape: for every
\* content of SKILL.md and every state of the skill directory it returns a
\* report, in which the failure is an error-severity issue.
C22_CheckerFailureBecomesIssue ==
    pc # "start" =>
        /\ pc # "crashed"
        /\ report # None
        /\ fsys.scripts = "file" =>
                \E i \in 1..Len(report.issues) : report.issues[i].severity = "error"

-----------------------------------------------------------------------------
(* Both parsers on the same documents.                                     *)

\* the lines the documents are written from
HeaderLines ==
    {Delim, "name: weather", "description: " \o DescUsage, "- url: docs", "  - alpha: 1",
     "# Title"}

\* the largest number of lines of a document
MaxHeaderLines == 4

InitHeaders ==
    /\ pc = "start"
    /\ doc = None
    /\ content \in SeqsUpTo(HeaderLines, MaxHeaderLines)
    /\ fsys = Directory(TRUE, "missing", {}, FALSE)
    /\ EvalIdle
    /\ PipeIdle
    /\ ProcIdle
    /\ skill = None
    /\ SmokeIdle

\* const { frontmatter, body, issues } = parseFrontmatter(content)
ParseFrontmatter ==
    /\ pc = "parsed"
    /\ handed' = parseFrontmatter(content)
    /\ pc' = "parsedBoth"
    /\ UNCHANGED <<doc, content, fsys, pipeVars, procVars, report, output, isPassedRead, skill,
                   smokeVars>>

NextHeaders == ParseSkill \/ ParseFrontmatter

SpecHeaders == InitHeaders /\ [][NextHeaders]_vars

\* number of delimiter lines of a document
DelimCount(lines) == Cardinality({i \in 1..Len(lines) : lines[i] = Delim})

\* C23: a document that does not begin with the delimiter line is the
\* failure NO_FRONTMATTER, and one that begins with it but has fewer than
\* two delimiters is the failure MALFORMED_FRONTMATTER, in parseFrontmatter
\* and in parseSkill alike.
C23_TypedHeaderFailures ==
    pc = "parsedBoth" =>
        /\ (content = <<>> \/ content[1] # Delim) =>
                /\ handed.issues = <<createIssue("error", "NO_FRONTMATTER")>>
                /\ skill.error = "NO_FRONTMATTER"
        /\ (content # <<>> /\ content[1] = Delim /\ DelimCount(content) < 2) =>
                /\ handed.issues = <<createIssue("error", "MALFORMED_FRONTMATTER")>>
                /\ skill.error = "MALFORMED_FRONTMATTER"

\* the keys a parser would take from the key: value lines of a block
KeysOfLines(lines) ==
    {k \in {"name", "description"} :
        \E i \in 1..Len(lines) : StartsWith(lines[i], k \o ":")}

\* C24: within a metadata block a list item (a line whose first non-blank
\* character is a hyphen) never adds or changes a key of the parsed
\* metadata, also when its text contains a colon: only the key: value lines
\* are captured.
C24_ListItemsSkipped ==
    (pc = "parsedBoth" /\ Len(content) >= 2 /\ content[1] = Delim
        /\ content[Len(content)] = Delim /\ DelimCount(content) = 2) =>
        DOMAIN handed.frontmatter = KeysOfLines(SubSeq(content, 2, Len(content) - 1))

-----------------------------------------------------------------------------
(* eval.js: parseArgs and runPipeline, the progressive evaluation.         *)
(* Each await of runPipeline is a step of its own.                         *)

Flags == {"--quick", "-q", "--smoke", "-s", "--full", "-f", "--ci"}

MaxArgs == 2

HasArg(as, names) == \E i \in 1..Len(as) : as[i] \in names

\* parseArgs: the skill path is given, every flag sets its own option
parseArgs(as) ==
    [runL1 |-> ~HasArg(as, {"--smoke", "-s"}),
     runL2 |-> ~HasArg(as, {"--quick", "-q"}),
     fullMode |-> HasArg(as, {"--full", "-f", "--ci"}),
     ciMode |-> HasArg(as, {"--ci"})]

\* what a child script gives back: its exit code and the number found in the
\* JSON of its output, when the output has JSON
ExitCodes == {0, 1}
L1Overalls == {0, 49, 50, 90}
L2Rates == {0, 59, 60, 100}

\* jsonData?.scores?.overall || 0
OrZero(json, x) == IF json THEN x ELSE 0

L1PassMin == 50
L2PassMin == 60

runL1(code, json, found) ==
    [level |-> 1,
     passed |-> code = 0 /\ OrZero(json, found) >= L1PassMin,
     score |-> OrZero(json, found),
     exitCode |-> code]

runL2(code, json, rate) ==
    [level |-> 2,
     passed |-> code = 0 /\ OrZero(json, rate) >= L2PassMin,
     passRate |-> OrZero(json, rate),
     exitCode |-> code]

UserAnswers == {"", "y", "n", "N", "no", "yes"}

AnswerContinues_Always(answer) == TRUE

\* shouldContinue = answer.toLowerCase() !== 'n'
AnswerContinues(answer) == ToLowerCase(answer) # "n"

InitPipeline ==
    /\ pc = "start"
    /\ doc = None
    /\ content = <<>>
    /\ fsys = Directory(TRUE, "missing", {}, FALSE)
    /\ skill = None
    /\ EvalIdle
    /\ SmokeIdle
    /\ ProcIdle
    /\ args \in SeqsUpTo(Flags, MaxArgs)
    /\ options = None
    /\ l1Result = None
    /\ l2Result = None
    /\ shouldContinue = TRUE
    /\ answers = <<>>

PipeUnchanged == UNCHANGED <<doc, content, fsys, skill, evalVars, smokeVars, procVars>>

\* main: const options = parseArgs()
ParseArgs ==
    /\ pc = "start"
    /\ options' = parseArgs(args)
    /\ pc' = "l1"
    /\ UNCHANGED <<args, l1Result, l2Result, shouldContinue, answers>>
    /\ PipeUnchanged

\* if (options.runL1 && shouldContinue) { l1Result = await runL1(...) ... }
RunL1 ==
    /\ pc = "l1"
    /\ options.runL1 /\ shouldContinue
    /\ \E code \in ExitCodes, json \in BOOLEAN, found \in L1Overalls :
         LET r == runL1(code, json, found) IN
         /\ l1Result' = r
         /\ IF ~r.passed
              THEN shouldContinue' = FALSE /\ pc' = "l2"
              ELSE IF options.runL2 /\ ~options.ciMode /\ ~options.fullMode
                     THEN pc' = "ask" /\ UNCHANGED shouldContinue
                     ELSE pc' = "l2" /\ UNCHANGED shouldContinue
    /\ UNCHANGED <<args, options, l2Result, answers>>
    /\ PipeUnchanged

SkipL1 ==
    /\ pc = "l1"
    /\ ~(options.runL1 /\ shouldContinue)
    /\ pc' = "l2"
    /\ UNCHANGED <<args, options, l1Result, l2Result, shouldContinue, answers>>
    /\ PipeUnchanged

\* const answer = await question(...); shouldContinue = ...
Answer ==
    /\ pc = "ask"
    /\ \E answer \in UserAnswers :
         /\ answers' = Append(answers, answer)
         /\ shouldContinue' = AnswerContinues(answer)
    /\ pc' = "l2"
    /\ UNCHANGED <<args, options, l1Result, l2Result>>
    /\ PipeUnchanged

\* if (options.runL2 && shouldContinue) { l2Result = await runL2(...) }
RunL2 ==
    /\ pc = "l2"
    /\ options.runL2 /\ shouldContinue
    /\ \E code \in ExitCodes, json \in BOOLEAN, rate \in L2Rates :
         l2Result' = runL2(code, json, rate)
    /\ pc' = "done"
    /\ UNCHANGED <<args, options, l1Result, shouldContinue, answers>>
    /\ PipeUnchanged

SkipL2 ==
    /\ pc = "l2"
    /\ ~(options.runL2 /\ shouldContinue)
    /\ pc' = "done"
    /\ UNCHANGED <<args, options, l1Result, l2Result, shouldContinue, answers>>
    /\ PipeUnchanged

NextPipeline == ParseArgs \/ RunL1 \/ SkipL1 \/ Answer \/ RunL2 \/ SkipL2

SpecPipeline == InitPipeline /\ [][NextPipeline]_vars

SmokeFlag == HasArg(args, {"--smoke", "-s"})
QuickFlag == HasArg(args, {"--quick", "-q"})
Interactive == ~HasArg(args, {"--full", "-f", "--ci"})
L1Passed == l1Result # None /\ l1Result.passed
AskedAndNotN == Len(answers) = 1 /\ answers[1] # "n"

\* C25: Level 2 is started only if Level 1 was skipped with --smoke or passed,
\* and without --full and --ci only after the user was asked and did not
\* answer n; with --quick Level 2 is never started, and with --full or --ci
\* the user is never asked.
C25_Level2Gate ==
    /\ l2Result # None =>
          /\ SmokeFlag \/ L1Passed
          /\ Interactive => AskedAndNotN
    /\ QuickFlag => l2Result = None
    /\ ~Interactive => answers = <<>>

\* C25 as the code has it: the question belongs to a Level 1 that ran and
\* passed, so with --smoke Level 2 starts without a question; an answer of
\* n in either case stops the run, any other answer continues it.
C25_Level2GateAfterLevel1 ==
    /\ l2Result # None =>
          /\ SmokeFlag \/ L1Passed
          /\ (Interactive /\ ~SmokeFlag) =>
                /\ Len(answers) = 1
                /\ answers[1] \notin {"n", "N"}
          /\ SmokeFlag => (l1Result = None /\ answers = <<>>)
    /\ QuickFlag => l2Result = None
    /\ ~Interactive => answers = <<>>
    /\ Len(answers) <= 1

C25_Witness ==
    /\ pc = "done"
    /\ l2Result # None
    /\ Interactive /\ ~SmokeFlag
    /\ L1Passed
    /\ answers = <<"no">>

-----------------------------------------------------------------------------
(* web/app/api/evaluate/route.js: the evaluateSkill of the web API,        *)
(* applied to a skill as parseSkillContent returns it.                     *)

WebNames == {"", "unknown", "weather"}
WebDescriptions == {"", DescShort, DescMedium, DescUsage}
WebBodies ==
    { "",
      "Read the file",
      "Run the build",
      "For example fetch the data",
      "See scripts/run.sh",
      Fence \o "bash\nrun it\n" \o Fence,
      "Check scripts/run.sh, for example:\n" \o Fence,
      "Execute, create, generate, fetch, check, build and run" }

WebSkills ==
    {[name |-> n, description |-> d, body |-> b] :
        n \in WebNames, d \in WebDescriptions, b \in WebBodies}

webTriggerPatterns == {"use when", "use this", "helpful for", "designed to"}
webImperativeVerbs == {"run", "execute", "create", "generate", "fetch", "check", "build"}

WebShortDesc == 50

\* the weighted sum of route.js, in 1/10000
webOverall(scores) ==
    scores.structure * 20 +
    scores.triggers * 25 +
    scores.actionability * 20 +
    scores.tool_refs * 15 +
    scores.examples * 20

webBadge(ov) ==
    IF ov >= 8500 THEN "gold"
    ELSE IF ov >= 7000 THEN "silver"
    ELSE IF ov >= 5000 THEN "bronze"
    ELSE "fail"

webEvaluateSkill(sk) ==
    LET noName == sk.name = "" \/ sk.name = "unknown"
        noDesc == sk.description = ""
        short == ~noDesc /\ Len(sk.description) < WebShortDesc
        hasUseWhen == \E p \in webTriggerPatterns : Includes(ToLowerCase(sk.description), p)
        bodyLower == ToLowerCase(sk.body)
        imperativeCount == Cardinality({v \in webImperativeVerbs : Includes(bodyLower, v)})
        fenced == Includes(sk.body, Fence)
        hasExamples == Includes(bodyLower, "example") \/ fenced
        issues ==
            (IF noName THEN <<[severity |-> "error", code |-> "NO_NAME"]>> ELSE <<>>)
            \o (IF noDesc THEN <<[severity |-> "error", code |-> "NO_DESCRIPTION"]>>
                ELSE IF short THEN <<[severity |-> "warning", code |-> "SHORT_DESCRIPTION"]>>
                ELSE <<>>)
        raw ==
            [structure |-> 100 - (IF noName THEN 30 ELSE 0) - (IF noDesc THEN 30 ELSE 0),
             triggers |-> 50 - (IF short THEN 10 ELSE 0) + (IF hasUseWhen THEN 30 ELSE 0),
             actionability |-> Min(100, 30 + imperativeCount * 10),
             tool_refs |-> 50 + (IF fenced THEN 20 ELSE 0)
                              + (IF Includes(sk.body, "scripts/") THEN 30 ELSE 0),
             examples |-> IF hasExamples THEN 80 ELSE 50]
        ov == Max(0, Min(10000, webOverall(raw)))
    IN  [skill_id |-> sk.name,
         tier |-> "quick",
         is_passed |-> ov >= 7000,
         pass_threshold |-> 7000,
         badge |-> webBadge(ov),
         scores |-> [structure |-> Max(0, Min(100, raw.structure)),
                     triggers |-> Max(0, Min(100, raw.triggers)),
                     actionability |-> Max(0, Min(100, raw.actionability)),
                     tool_refs |-> Max(0, Min(100, raw.tool_refs)),
                     examples |-> Max(0, Min(100, raw.examples)),
                     overall |-> ov],
         issues |-> issues]

InitWeb ==
    /\ pc = "start"
    /\ doc = None
    /\ content = <<>>
    /\ fsys = Directory(TRUE, "missing", {}, FALSE)
    /\ skill \in WebSkills
    /\ EvalIdle
    /\ PipeIdle
    /\ SmokeIdle
    /\ ProcIdle

\* POST: const l1Result = evaluateSkill(skill)
WebEvaluate ==
    /\ pc = "start"
    /\ report' = webEvaluateSkill(skill)
    /\ pc' = "evaluated"
    /\ UNCHANGED <<doc, content, fsys, pipeVars, procVars, handed, output, isPassedRead, skill,
                   smokeVars>>

SpecWeb == InitWeb /\ [][WebEvaluate]_vars

\* C26: the web API's evaluateSkill weighs its dimension scores 20, 15, 25,
\* 20 and 20 percent, so its overall score and badge are the ones the
\* command-line engine gives for the same dimension scores.
C26_WebOverallAsCli ==
    pc = "evaluated" =>
        /\ report.scores.overall = overall(report.scores)
        /\ report.badge = badgeOf(overall(report.scores))

-----------------------------------------------------------------------------
(* runSmokeTest: the list of tests and the pass counter over the loop.     *)

IsPrefix(s, t) == Len(s) <= Len(t) /\ SubSeq(t, 1, Len(s)) = s

\* one step of the loop, as the list and the counter see it
AppendOnlyStep ==
    /\ IsPrefix(results, results')
    /\ Len(results') <= Len(results) + 1
    /\ passCount' >= passCount
    /\ passCount' <= passCount + 1
    /\ (Len(results') = Len(results) + 1 /\ results'[Len(results')].verdict = "ERROR")
          => passCount' = passCount

\* every prompt handled so far has its one entry, in the order of the prompts
OneEntryPerPrompt ==
    pc \in {"loop", "awaitChat", "awaitJudge", "record", "done"} =>
        /\ Len(results) = (IF pc = "done" THEN Len(prompts) ELSE idx - 1)
        /\ \A i \in 1..Len(results) : results[i].prompt = prompts[i]
        /\ passCount <= Len(results)

\* C27: in runSmokeTest the tests list is append-only and the pass counter
\* never decreases: each prompt appends exactly one entry, and a call that
\* fails or times out leaves the earlier entries and the counter as they were.
C27_AppendOnlyTests == []OneEntryPerPrompt /\ [][AppendOnlyStep]_vars

C27_Witness ==
    /\ pc = "done"
    /\ Len(results) = 3
    /\ results[1].verdict = "YES"
    /\ results[2].verdict = "ERROR"
    /\ results[2].error = "Request timeout"
    /\ results[3].verdict = "ERROR"
    /\ passCount = 1

-----------------------------------------------------------------------------
(* The badge and the overall score of the JSON report.                     *)

\* the badge the reported overall score (in hundredths) stands for
BadgeOfReported(shown) ==
    IF shown >= 85 THEN "gold"
    ELSE IF shown >= 70 THEN "silver"
    ELSE IF shown >= 50 THEN "bronze"
    ELSE "fail"

\* C29: in the JSON report the badge agrees with the reported overall score,
\* which is rounded to 2 decimals: gold iff it is at least 0.85, silver iff in
\* [0.70, 0.85), bronze iff in [0.50, 0.70), fail otherwise.
C29_BadgeAgreesWithReportedOverall ==
    pc = "printed" => output.badge = BadgeOfReported(output.scores.overall)

\* the boundaries of the badges, in 1/10000
BadgeBoundaries == {8500, 7000, 5000}

\* C29 as the code has it: the badge is the step function of the overall
\* score before rounding; the reported score is within 0.005 of it, so the
\* badge is the one the reported score stands for unless the score before
\* rounding is less than 0.005 below a boundary: then the report shows the
\* boundary itself with the badge below it.
C29_BadgeOfUnroundedOverall ==
    pc = "printed" =>
        LET ov == overall(report.scores)
            shown == output.scores.overall
        IN  /\ output.badge = "gold" <=> ov >= 8500
            /\ output.badge = "silver" <=> (ov >= 7000 /\ ov < 8500)
            /\ output.badge = "bronze" <=> (ov >= 5000 /\ ov < 7000)
            /\ output.badge = "fail" <=> ov < 5000
            /\ 100 * shown - ov <= 50
            /\ ov - 100 * shown < 50
            /\ output.badge # BadgeOfReported(shown) =>
                  \E t \in BadgeBoundaries :
                      /\ ov < t
                      /\ ov >= t - 50
                      /\ 100 * shown = t
                      /\ output.badge # BadgeOfReported(t \div 100)

\* a report that shows the overall score 0.5 with the badge fail
C29_Witness ==
    /\ pc = "printed"
    /\ output.scores.overall = 50
    /\ output.badge = "fail"
    /\ overall(report.scores) < 5000

-----------------------------------------------------------------------------
(* checkToolRefs on a document and on the documents with more evidence.    *)

ToolScore(fs, d) == checkToolRefs(fs, d.body, <<>>).score

\* the documents that are d with one more line of the library
OneMoreLine(d) ==
    {d2 \in ToolDocs :
        /\ Len(d2.entries) = Len(d.entries) + 1
        /\ \E k \in 1..Len(d2.entries) :
              d.entries = [i \in 1..Len(d.entries) |->
                              IF i < k THEN d2.entries[i] ELSE d2.entries[i + 1]]}

\* the directories that are fs with scripts in it, when fs has none
WithScripts(fs) ==
    IF fs.entries \subseteq {".gitkeep"}
    THEN {f2 \in ToolDirectories : ~(f2.entries \subseteq {".gitkeep"})}
    ELSE {}

\* what the document was written with
HasEvidence(fs, d) ==
    \/ ~(fs.entries \subseteq {".gitkeep"})
    \/ \E i \in 1..Len(d.entries) : d.entries[i].docRef \/ d.entries[i].shell
    \/ Cardinality(UNION {d.entries[i].tools : i \in 1..Len(d.entries)}) >= 2

\* C30: checkToolRefs is monotone in evidence: with a scripts directory that
\* has scripts, or with one more line (a documentation link, a second tool
\* keyword, a shell code block), the tool_refs score is never lower, also
\* for a document that had no evidence and the neutral score 0.5.
C30_MoreEvidenceNeverLowers ==
    pc = "evaluated" =>
        /\ \A d2 \in OneMoreLine(doc) : ToolScore(fsys, d2) >= report.scores.tool_refs
        /\ \A f2 \in WithScripts(fsys) : ToolScore(f2, doc) >= report.scores.tool_refs

\* C30 as the code has it: the score is monotone in evidence among the
\* documents that have some; a document with none has the neutral 0.5, and
\* its first piece of evidence lowers the score to 0.2 or 0.3.
C30_MonotoneAboveNeutral ==
    pc = "evaluated" =>
        IF HasEvidence(fsys, doc)
        THEN /\ report.scores.tool_refs >= 20
             /\ \A d2 \in OneMoreLine(doc) : ToolScore(fsys, d2) >= report.scores.tool_refs
             /\ \A f2 \in WithScripts(fsys) : ToolScore(f2, doc) >= report.scores.tool_refs
        ELSE /\ report.scores.tool_refs = 50
             /\ \A d2 \in OneMoreLine(doc) :
                   ToolScore(fsys, d2) \in (IF HasEvidence(fsys, d2) THEN {20, 30} ELSE {50})
             /\ \A f2 \in WithScripts(fsys) : ToolScore(f2, doc) = 30

\* a document whose one piece of evidence is a shell block scores 0.2, and
\* with a documentation link added it scores 0.5
C30_Witness ==
    /\ pc = "evaluated"
    /\ HasEvidence(fsys, doc)
    /\ report.scores.tool_refs = 20
    /\ \E d2 \in OneMoreLine(doc) : ToolScore(fsys, d2) = 50

=============================================================================
